---- MODULE Spec2Model ----
(***************************************************************************)
(* Antu logistics backend: the tracking and dispatch handlers as a         *)
(* request-served system over the shared tables drivers, shipments and     *)
(* tracking_points.                                                        *)
(*                                                                         *)
(* Reading of the source.  Calls are bound as Python binds them: a call    *)
(* whose positional arguments do not fit the callee's parameter list       *)
(* raises TypeError before the callee runs, a mapped class built with a    *)
(* keyword it does not map raises TypeError, and reading an attribute an   *)
(* object does not have raises AttributeError.  Rows carry the columns the *)
(* models map and nothing else.  A handler reads the rows it works on with *)
(* its SELECTs and writes them at its commit; requests of different        *)
(* workers interleave between the two.                                     *)
(***************************************************************************)
EXTENDS Integers, Sequences, FiniteSets, TLC

VARIABLES
    tracking_points,      \* table tracking_points, rows in commit order
    drivers,              \* table drivers: id -> row
    shipments,            \* table shipments: id -> row
    clock,                \* datetime.utcnow()
    Driver_location,      \* class attribute Driver.location (process-wide)
    Shipment_destination, \* class attribute Shipment.destination (process-wide)
    requests,             \* the /shipments request each worker is serving
    vehicles,             \* table vehicles: id -> row
    response              \* what the last request that ended returned

vars == <<tracking_points, drivers, shipments, clock,
          Driver_location, Shipment_destination, requests, vehicles, response>>

Null == "null"            \* None / SQL NULL, for an id or a string
None == <<>>              \* None / SQL NULL, for a number, a time or a point
Some(v) == <<v>>          \* a number or a time that is set
\* a class attribute still bound to its mapped column: it has the operators
\* a query filters with
Column == [isnot |-> "IS NOT", in_ |-> "IN"]

\* ------------------------------------------------------------------ bounds
MaxLog == 2               \* rows the tracking_points table may hold
MaxClock == 2             \* readings the clock may take

\* ------------------------------------------------------------------ domain
DriverIds == {"d1", "d2", "d3"}           \* rows of table drivers
ShipmentIds == {"s1", "s2", "s3", "s4", "s5", "s6"}     \* rows of table shipments
VehicleIds == {"v1", "v2"}          \* rows of table vehicles
UnknownDriver == "dx"               \* an id with no row
UnknownShipment == "sx"

\* exceptions the handlers raise, by message
ErrSaving == "Error saving tracking point"
ErrDriverNotFound == "Driver not found"
ErrRouteNotFound == "Shipment route not found"
TypeError == "TypeError"
AttributeError == "AttributeError"
Ok == "ok"

\* from_shape(Point(longitude, latitude), srid=4326): the geography element
\* stored in a location column, x the longitude and y the latitude of the
\* point it encodes (tracking_service.py:24, 55, 81). The element has the
\* attributes srid and data.
from_shape(longitude, latitude) == [srid |-> 4326, data |-> <<longitude, latitude>>]

\* obj.name: the attribute when the object has it, AttributeError otherwise
getattr(obj, name) ==
    IF name \in DOMAIN obj
    THEN [raised |-> Null, value |-> obj[name]]
    ELSE [raised |-> AttributeError, value |-> Null]

\* obj.x and obj.y, as the handlers read them on tracking rows and on the
\* location elements of drivers and shipments
X(obj) == getattr(obj, "x")
Y(obj) == getattr(obj, "y")

\* an argument expression that is a plain value
Value(v) == [raised |-> Null, value |-> v]

\* the argument expressions of a call, evaluated left to right before the
\* call: the first that raises ends the evaluation
RECURSIVE evaluate(_)
evaluate(exprs) ==
    IF exprs = <<>>
    THEN [raised |-> Null, values |-> <<>>]
    ELSE IF Head(exprs).raised # Null
    THEN [raised |-> Head(exprs).raised, values |-> <<>>]
    ELSE LET rest == evaluate(Tail(exprs))
         IN  [raised |-> rest.raised,
              values |-> IF rest.raised # Null THEN <<>>
                         ELSE <<Head(exprs).value>> \o rest.values]

\* ------------------------------------------------------- tracking ingest
\* tracking_model.py:12-17 and 20: the attributes class TrackingPoint maps
TrackingPoint_attributes ==
    {"id", "shipment_id", "location", "speed_kmh", "recorded_at", "notes", "shipment"}

\* a constructor that would take the keywords the service passes: speed_kph
\* for the column speed_kmh, and a driver_id it has no column for
TrackingPoint_lenient(kwargs) ==
    [raised |-> Null,
     row |-> [id |-> Null,
              shipment_id |-> IF "shipment_id" \in DOMAIN kwargs THEN kwargs.shipment_id ELSE Null,
              location |-> IF "location" \in DOMAIN kwargs THEN kwargs.location ELSE None,
              speed_kmh |-> IF "speed_kph" \in DOMAIN kwargs THEN kwargs.speed_kph ELSE None,
              recorded_at |-> None,
              notes |-> Null]]

\* TrackingPoint(**kwargs), the declarative constructor: a keyword that is no
\* mapped attribute raises TypeError; the object carries the columns given
\* and NULL for the others until the flush sets the defaults
TrackingPoint(kwargs) ==
    IF ~(DOMAIN kwargs \subseteq TrackingPoint_attributes)
    THEN [raised |-> TypeError, row |-> Null]
    ELSE [raised |-> Null,
          row |-> [id |-> IF "id" \in DOMAIN kwargs THEN kwargs.id ELSE Null,
                   shipment_id |-> IF "shipment_id" \in DOMAIN kwargs THEN kwargs.shipment_id ELSE Null,
                   location |-> IF "location" \in DOMAIN kwargs THEN kwargs.location ELSE None,
                   speed_kmh |-> IF "speed_kmh" \in DOMAIN kwargs THEN kwargs.speed_kmh ELSE None,
                   recorded_at |-> IF "recorded_at" \in DOMAIN kwargs THEN kwargs.recorded_at ELSE None,
                   notes |-> IF "notes" \in DOMAIN kwargs THEN kwargs.notes ELSE Null]]

\* db.add + db.commit of one tracking row: the flush sets the column defaults
\* id = uuid4() and recorded_at = utcnow() (tracking_model.py:12, 16); the
\* foreign key shipments.id (tracking_model.py:13) must resolve, else the
\* commit fails
commit_tracking(tp, ships, row, id, now) ==
    IF row.shipment_id \in DOMAIN ships
    THEN [ok |-> TRUE,
          tracking_points |-> Append(tp, [row EXCEPT !.id = id, !.recorded_at = now])]
    ELSE [ok |-> FALSE, tracking_points |-> tp]

\* a save whose error path would clear the table
save_tracking_point_clearing(tp, ships, id, now, driver_id, shipment_id, latitude, longitude, speed_kph) ==
    [raised |-> ErrSaving, tracking_points |-> <<>>, tracking |-> Null]

\* tracking_service.py:15-41. Whatever is raised inside the try, by the
\* constructor or by the commit, ends in the rollback of line 40 and the
\* exception of line 41.
save_tracking_point(tp, ships, id, now, driver_id, shipment_id, latitude, longitude, speed_kph) ==
    LET point == from_shape(longitude, latitude)
        tracking == TrackingPoint([driver_id |-> driver_id, shipment_id |-> shipment_id,
                                   location |-> point, speed_kph |-> speed_kph])
        c == commit_tracking(tp, ships, tracking.row, id, now)
    IN  IF tracking.raised # Null
        THEN [raised |-> ErrSaving, tracking_points |-> tp, tracking |-> Null]
        ELSE IF ~c.ok
        THEN [raised |-> ErrSaving, tracking_points |-> tp, tracking |-> Null]
        ELSE [raised |-> Null, tracking_points |-> c.tracking_points,
              tracking |-> c.tracking_points[Len(c.tracking_points)]]

\* tracking_service.py:43-65, with attribute what the class attribute
\* Driver.location is bound to when line 54 assigns driver.location. Bound to
\* the mapped column, the assignment is recorded by the session and the commit
\* of line 56 writes it; once line 322 has bound it to a point, the
\* assignment is a plain attribute of the object and the commit writes
\* nothing.
update_driver_current_location(drv, attribute, driver_id, latitude, longitude) ==
    IF driver_id \notin DOMAIN drv
    THEN [raised |-> ErrDriverNotFound, drivers |-> drv]
    ELSE IF attribute # Column
    THEN [raised |-> Null, drivers |-> drv]
    ELSE [raised |-> Null,
          drivers |-> [drv EXCEPT ![driver_id].location = from_shape(longitude, latitude)]]

\* tracking_service.py:67-92. Line 78 reads shipment.route of the row found;
\* class Shipment maps no route (shipment_model.py:19-58).
calculate_route_deviation(ships, shipment_id, latitude, longitude) ==
    IF shipment_id \notin DOMAIN ships
    THEN [raised |-> ErrRouteNotFound]
    ELSE LET route == getattr(ships[shipment_id], "route")
         IN  IF route.raised # Null THEN [raised |-> route.raised]
             ELSE IF route.value = Null THEN [raised |-> ErrRouteNotFound]
             ELSE [raised |-> Null]

\* tracking_service.py:94-129: the handler. Each callee commits its own
\* write; an exception ends the request and leaves the writes committed so far
\* in place.
track_driver(tp, drv, ships, attribute, id, now, driver_id, shipment_id, latitude, longitude, speed_kph) ==
    LET s == save_tracking_point(tp, ships, id, now, driver_id, shipment_id,
                                 latitude, longitude, speed_kph)
        u == update_driver_current_location(drv, attribute, driver_id, latitude, longitude)
        r == calculate_route_deviation(ships, shipment_id, latitude, longitude)
    IN  IF s.raised # Null
        THEN [result |-> s.raised, tracking_points |-> s.tracking_points, drivers |-> drv]
        ELSE IF u.raised # Null
        THEN [result |-> u.raised, tracking_points |-> s.tracking_points, drivers |-> drv]
        ELSE IF r.raised # Null
        THEN [result |-> r.raised, tracking_points |-> s.tracking_points, drivers |-> u.drivers]
        ELSE [result |-> Ok, tracking_points |-> s.tracking_points, drivers |-> u.drivers]

\* uuid4: an id no other row has
NewId(tp) == Len(tp) + 1

\* ------------------------------------------------------------- geo maths
\* shipments_service.py:23-29: the positional parameters
\* (db, origin_lat, origin_lng, dest_lat, dest_lng)
calculate_distance_km_params == 5

\* ST_Distance over two geography points (shipments_service.py:38-40), in metres.
\* The database computes it; here points lie on a grid whose unit is 1 km and
\* the distance is taken along the grid.
Abs(n) == IF n < 0 THEN 0 - n ELSE n
ST_Distance(lat1, lng1, lat2, lng2) == 1000 * (Abs(lat1 - lat2) + Abs(lng1 - lng2))

\* shipments_service.py:23-50, called with the tuple args of positional
\* arguments. The result is in hundredths of a km:
\* Decimal(m) / 1000 quantized to 0.01, ROUND_HALF_UP.
calculate_distance_km(args) ==
    IF Len(args) # calculate_distance_km_params
    THEN [raised |-> TypeError, km100 |-> 0]
    ELSE [raised |-> Null,
          km100 |-> (ST_Distance(args[2], args[3], args[4], args[5]) + 5) \div 10]

\* ------------------------------------------------------------ read side
\* tracking_service.py:314-359. Lines 322-323 assign the class attributes
\* Driver.location and Shipment.destination; line 338 calls
\* calculate_distance_km with four positional arguments.
calculate_estimated_delivery_time(current_location_lat, current_location_lng, destination_lat, destination_lng, current_speed_kmh) ==
    LET d == calculate_distance_km(<<current_location_lat, current_location_lng,
                                     destination_lat, destination_lng>>)
        speed == IF current_speed_kmh # None /\ current_speed_kmh[1] > 0
                 THEN current_speed_kmh[1] ELSE 40
    IN  [Driver_location |-> from_shape(current_location_lng, current_location_lat),
         Shipment_destination |-> from_shape(destination_lng, destination_lat),
         result |-> IF d.raised # Null THEN d.raised ELSE Ok,
         remaining_distance_km100 |-> d.km100,
         current_speed_kmh |-> speed,
         \* time_minutes = remaining / speed * 60, in tenths of a minute
         estimated_time_minutes10 |-> (d.km100 * 60) \div (speed * 10)]

\* ------------------------------------------------------------- shipments
Active == {"assigned", "in_transit"}

\* shipment_model.py:22-58: the attributes class Shipment maps
Shipment_attributes ==
    {"id", "tracking_number", "shipper_id", "driver_id", "origin", "destination",
     "package_description", "weight_kg", "volume_m3", "status",
     "estimated_distance_km", "estimated_cost", "actual_cost", "created_at",
     "assigned_at", "picked_up_at", "delivered_at", "updated_at",
     "recipient_name", "recipient_phone", "customer", "driver", "tracking_points"}

\* schemas/shipment.py:12-28 and 40-54: the fields of ShipmentRead that have
\* no default
ShipmentRead_required ==
    {"tracking_number", "origin_latitude", "origin_longitude",
     "destination_latitude", "destination_longitude", "weight_kg",
     "recipient_name", "recipient_phone", "id", "created_at", "status"}

ResponseValidationError == "500 ResponseValidationError"

\* response_model=ShipmentResponse (routes/shipment.py:11, 170, 266): the row
\* the handler returns is read attribute by attribute into ShipmentRead; a
\* required field the row has no attribute for fails the response
ShipmentResponse(shipment) ==
    IF ShipmentRead_required \subseteq Shipment_attributes
    THEN Ok
    ELSE ResponseValidationError

\* db.commit() (routes/shipment.py:224, 262, 300), and before it the flush
\* the session runs ahead of the SELECT of line 211 when the object has
\* pending changes. Each UPDATE sets the columns whose value on the session's
\* object differs from the value the session last read or wrote: loaded is the
\* row the first SELECT gave, flushed the object as the last flush left it
\* (loaded when there was none), shipment the object at the commit. Every
\* other column keeps what the table holds by then.
flush_shipment(ships, shipment_id, loaded, flushed, shipment) ==
    LET written(column) == \/ flushed[column] # loaded[column]
                           \/ shipment[column] # flushed[column]
    IN  [ships EXCEPT ![shipment_id] =
            [@ EXCEPT
               !.status = IF written("status") THEN shipment.status ELSE @,
               !.driver_id = IF written("driver_id") THEN shipment.driver_id ELSE @,
               !.assigned_at = IF written("assigned_at") THEN shipment.assigned_at ELSE @,
               !.picked_up_at = IF written("picked_up_at") THEN shipment.picked_up_at ELSE @,
               !.delivered_at = IF written("delivered_at") THEN shipment.delivered_at ELSE @,
               !.actual_cost = IF written("actual_cost") THEN shipment.actual_cost ELSE @]]

\* routes/shipment.py:184-207, on the row the SELECT of line 182 loaded (None
\* when there is none): the guards, the new status and its timestamp.
\* update_data = [status, driver_id, actual_cost], each Null or None when the
\* request leaves it out; current_user = [role, id, driver_id] with driver_id
\* the user's driver profile or Null (the SELECT of line 192); now is
\* datetime.utcnow() as line 205 or 207 reads it. The result is the session's
\* object with the attributes assigned.
update_shipment_status(loaded, now, update_data, current_user) ==
    IF loaded = None
    THEN [raised |-> "404 Shipment not found", shipment |-> Null]
    ELSE IF current_user.role = "driver"
            /\ (current_user.driver_id = Null
                \/ loaded[1].driver_id # current_user.driver_id)
    THEN [raised |-> "403 Not authorized", shipment |-> loaded[1]]
    ELSE
    LET s0 == loaded[1]
        st == [s0 EXCEPT !.status = update_data.status]
    IN  [raised |-> Null,
         shipment |->
            IF update_data.status = Null THEN s0
            ELSE IF update_data.status = "in_transit" /\ s0.picked_up_at = None
            THEN [st EXCEPT !.picked_up_at = Some(now)]
            ELSE IF update_data.status = "delivered" /\ s0.delivered_at = None
            THEN [st EXCEPT !.delivered_at = Some(now)]
            ELSE st]

\* a reassignment that would not look the driver up
update_shipment_driver_unchecked(shipment, drv, now, update_data, current_user) ==
    LET reassign == update_data.driver_id # Null /\ current_user.role = "admin"
    IN  [raised |-> Null, autoflush |-> reassign,
         shipment |-> IF reassign
                      THEN [shipment EXCEPT !.driver_id = update_data.driver_id,
                                            !.assigned_at = Some(now),
                                            !.status = "assigned"]
                      ELSE shipment]

\* routes/shipment.py:209-222, on the object lines 184-207 left: the driver
\* and the cost, which only an admin sets. The SELECT of line 211 makes the
\* session flush the object first (autoflush); now is datetime.utcnow() as
\* line 218 reads it, after that SELECT. The 404 of line 213 ends the request
\* with the status of line 201 set on the object and flushed, and not
\* committed.
update_shipment_driver(shipment, drv, now, update_data, current_user) ==
    LET reassign == update_data.driver_id # Null /\ current_user.role = "admin"
        s2 == IF reassign
              THEN [shipment EXCEPT !.driver_id = update_data.driver_id,
                                    !.assigned_at = Some(now),
                                    !.status = "assigned"]
              ELSE shipment
        s3 == IF update_data.actual_cost # None /\ current_user.role = "admin"
              THEN [s2 EXCEPT !.actual_cost = update_data.actual_cost]
              ELSE s2
    IN  IF reassign /\ update_data.driver_id \notin DOMAIN drv
        THEN [raised |-> "404 Driver not found", autoflush |-> TRUE, shipment |-> shipment]
        ELSE [raised |-> Null, autoflush |-> reassign, shipment |-> s3]

\* routes/shipment.py:240-262, from the row the SELECT of line 240 loaded to
\* the commit
cancel_shipment(loaded, current_user) ==
    IF loaded = None
    THEN [raised |-> "404 Shipment not found", commit |-> FALSE, shipment |-> Null]
    ELSE IF current_user.role = "shipper" /\ loaded[1].shipper_id # current_user.id
    THEN [raised |-> "403 Not authorized", commit |-> FALSE, shipment |-> loaded[1]]
    ELSE IF current_user.role = "shipper"
            /\ loaded[1].status \notin {"created", "assigned"}
    THEN [raised |-> "400 Can only cancel pending or assigned shipments",
          commit |-> FALSE, shipment |-> loaded[1]]
    ELSE [raised |-> Null, commit |-> TRUE,
          shipment |-> [loaded[1] EXCEPT !.status = "cancelled"]]

\* routes/shipment.py:277-298, on the row the SELECT of line 276 loaded: the
\* guards and the assignment; now is datetime.utcnow() as line 297 reads it
assign_driver_to_shipment(loaded, drv, now, driver_id) ==
    IF loaded = None
    THEN [raised |-> "404 Shipment not found", commit |-> FALSE, shipment |-> Null]
    ELSE IF driver_id \notin DOMAIN drv
    THEN [raised |-> "404 Driver not found", commit |-> FALSE, shipment |-> loaded[1]]
    ELSE IF ~drv[driver_id].is_active
    THEN [raised |-> "400 Driver is not active", commit |-> FALSE, shipment |-> loaded[1]]
    ELSE [raised |-> Null, commit |-> TRUE,
          shipment |-> [loaded[1] EXCEPT !.driver_id = driver_id,
                                         !.assigned_at = Some(now),
                                         !.status = "assigned"]]

\* ------------------------------------------------------- driver analytics
\* models/user_model.py:9-13: the members of the enumeration
UserRole ==
    [ADMIN |-> "admin", LOGISTICS_MANAGER |-> "manager", DRIVER |-> "driver",
     CUSTOMER |-> "shipper"]

\* routes/driver.py:33-36, the dependency of every driver-analytics route:
\* the list [UserRole.ADMIN, UserRole.MANAGER] is built before the role is
\* looked up in it, and UserRole has no member MANAGER
require_staff(current_user) ==
    LET staff == evaluate(<<getattr(UserRole, "ADMIN"), getattr(UserRole, "MANAGER")>>)
    IN  IF staff.raised # Null THEN staff.raised
        ELSE IF \A i \in DOMAIN staff.values : current_user.role # staff.values[i]
        THEN "403 Not authorized"
        ELSE Null

\* driver_service.py:141: "Max 5 active shipments"
MaxActiveShipments == 5

\* db.query(Driver).filter(Driver.id == driver_id).first()
\* (driver_service.py:145, 236): the row as the table holds it now
select_driver(drv, driver_id) ==
    IF driver_id \in DOMAIN drv THEN Some(drv[driver_id]) ELSE None

\* driver_service.py:105-108 and 110-113: the COUNT of the shipments of
\* driver_id in one status, on the table as it is when the SELECT runs
count_shipments(ships, driver_id, status) ==
    Cardinality({s \in DOMAIN ships :
                    ships[s].driver_id = driver_id /\ ships[s].status = status})

\* driver_service.py:115 and 125-142 on the two counts. Each COUNT and the
\* SELECT of lines 118-121 is a statement of its own; the pending distance
\* that SELECT is for is left out of the result.
get_driver_active_workload(assigned, in_transit) ==
    LET total_active == assigned + in_transit
    IN  [assigned_shipments |-> assigned,
         in_transit_shipments |-> in_transit,
         total_active |-> total_active,
         workload_status |-> IF total_active = 0 THEN "free"
                             ELSE IF total_active <= 2 THEN "light"
                             ELSE IF total_active <= 5 THEN "moderate"
                             ELSE "heavy",
         can_accept_more |-> total_active < MaxActiveShipments]

\* check_driver_availability_for_shipment, driver_service.py:237-254, on the
\* row the SELECT of line 236 gave: the value returned, or None when the
\* function goes on to line 256. reason is the message without its numbers.
check_driver_availability_driver(driver) ==
    IF driver = None
    THEN Some([available |-> FALSE, reason |-> "Driver not found"])
    ELSE IF ~driver[1].is_active
    THEN Some([available |-> FALSE, reason |-> "Driver is not active"])
    ELSE IF driver[1].status = "off_duty"
    THEN Some([available |-> FALSE, reason |-> "Driver is off duty"])
    ELSE None

\* check_driver_availability_for_shipment, driver_service.py:257-264 and
\* 271-275, on the workload line 256 got: the value returned, or None when
\* the function goes on to the SELECT of line 265
check_driver_availability_workload(driver, workload) ==
    IF ~workload.can_accept_more
    THEN Some([available |-> FALSE, reason |-> "Driver has maximum workload"])
    ELSE IF driver.vehicle_id = Null
    THEN Some([available |-> FALSE, reason |-> "Driver has no vehicle assigned"])
    ELSE None

\* check_driver_availability_for_shipment, driver_service.py:266-270 and
\* 277-282, on what the SELECT of line 265 gave: a row, or None, which line
\* 266 lets through
check_driver_availability_vehicle(driver, workload, vehicle, shipment_weight_kg) ==
    IF vehicle # None /\ vehicle[1].capacity_kg < shipment_weight_kg
    THEN [available |-> FALSE, reason |-> "Vehicle capacity insufficient for shipment"]
    ELSE [available |-> TRUE, reason |-> "Driver is available",
          current_workload |-> workload.total_active, driver_status |-> driver.status]

\* driver_service.py:350-355: the rows the query selects, each with its id,
\* in the order the database returns the table (order: every driver id once)
nearest_candidates(drv, order) ==
    LET selected(id) == /\ drv[id].is_active
                        /\ drv[id].status \in {"available", "on_duty"}
                        /\ drv[id].location # None
        ids == SelectSeq(order, selected)
    IN  [i \in DOMAIN ids |-> [id |-> ids[i], driver |-> drv[ids[i]]]]

\* driver_service.py:367-381: the rest of the loop body for the candidate whose
\* availability is known, from nearest = [driver, distance, raised] with
\* distance None for float('inf') and in hundredths of a km otherwise;
\* max_distance_km is in km. The arguments of the call at 372-377 are
\* evaluated first: driver.location.y is its first.
nearest_loop(candidate, availability, nearest, origin_lat, origin_lng, max_distance_km) ==
    LET loc == candidate.driver.location
        args == evaluate(<<IF loc # None THEN Y(loc) ELSE Value(0),
                           IF loc # None THEN X(loc) ELSE Value(0),
                           Value(origin_lat), Value(origin_lng)>>)
        distance == IF args.raised # Null
                    THEN [raised |-> args.raised, km100 |-> 0]
                    ELSE calculate_distance_km(args.values)
        nearer == /\ nearest.distance = None \/ distance.km100 < nearest.distance[1]
                  /\ distance.km100 <= max_distance_km * 100
    IN  IF ~availability.available THEN nearest
        ELSE IF distance.raised # Null
        THEN [nearest EXCEPT !.raised = distance.raised]
        ELSE IF nearer
        THEN [driver |-> candidate.id, distance |-> Some(distance.km100), raised |-> Null]
        ELSE nearest

\* ------------------------------------------------------ tracking analytics
\* Timestamps are in seconds. The loops pass prev_point.x, prev_point.y,
\* curr_point.x and curr_point.y to calculate_distance_km; the arguments are
\* evaluated before the call, and TrackingPoint maps no x and no y.

\* the call calculate_distance_km(prev_point.x, prev_point.y, curr_point.x,
\* curr_point.y) of tracking_service.py:234-237, 291-294 and 478-481
distance_between(prev_point, curr_point) ==
    LET args == evaluate(<<X(prev_point), Y(prev_point), X(curr_point), Y(curr_point)>>)
    IN  IF args.raised # Null
        THEN [raised |-> args.raised, km100 |-> 0]
        ELSE calculate_distance_km(args.values)

\* .order_by(TrackingPoint.recorded_at.asc()) over the rows in stored order;
\* rows with equal recorded_at stay in stored order
RECURSIVE order_by_recorded_at(_)
order_by_recorded_at(rows) ==
    IF rows = <<>>
    THEN <<>>
    ELSE LET first == Head(rows)
             rest == order_by_recorded_at(Tail(rows))
             before(r) == r.recorded_at < first.recorded_at
             notbefore(r) == r.recorded_at >= first.recorded_at
         IN  SelectSeq(rest, before) \o <<first>> \o SelectSeq(rest, notbefore)

\* db.query(TrackingPoint).filter(TrackingPoint.shipment_id == shipment_id):
\* tracking_service.py:216-218, 277-279, 376-378, 452-454
rows_of_shipment(tp, shipment_id) ==
    LET mine(r) == r.shipment_id = shipment_id
    IN  SelectSeq(tp, mine)

query_tracking_points(tp, shipment_id) ==
    order_by_recorded_at(rows_of_shipment(tp, shipment_id))

\* tracking_service.py:465-495: the loop from index i, acc = [raised, anomalies]
RECURSIVE validate_loop(_, _, _)
validate_loop(points, i, acc) ==
    IF i > Len(points) \/ acc.raised # Null
    THEN acc
    ELSE LET prev_point == points[i - 1]
             curr_point == points[i]
             checked == IF curr_point.recorded_at <= prev_point.recorded_at
                        THEN Append(acc.anomalies,
                                    [type |-> "time_sequence", point_id |-> curr_point.id])
                        ELSE acc.anomalies
             distance == distance_between(prev_point, curr_point)
             seconds == curr_point.recorded_at - prev_point.recorded_at
             \* speed = distance / (seconds / 3600) > 150
             anomalies == IF seconds > 0 /\ distance.km100 * 36 > 150 * seconds
                          THEN Append(checked,
                                      [type |-> "impossible_speed", point_id |-> curr_point.id])
                          ELSE checked
         IN  validate_loop(points, i + 1,
                           IF distance.raised # Null
                           THEN [acc EXCEPT !.raised = distance.raised]
                           ELSE [raised |-> Null, anomalies |-> anomalies])

\* tracking_service.py:440-502
validate_tracking_point_sequence(tp, shipment_id) ==
    LET points == query_tracking_points(tp, shipment_id)
        v == validate_loop(points, 2, [raised |-> Null, anomalies |-> <<>>])
    IN  IF Len(points) < 2
        THEN [raised |-> Null, valid |-> TRUE, anomalies |-> <<>>,
              message |-> "Not enough data to validate"]
        ELSE IF v.raised # Null
        THEN [raised |-> v.raised, valid |-> FALSE, anomalies |-> <<>>, message |-> Null]
        ELSE [raised |-> Null, valid |-> Len(v.anomalies) = 0, anomalies |-> v.anomalies,
              message |-> IF Len(v.anomalies) = 0 THEN "Validation complete"
                          ELSE "Found anomalies"]

\* tracking_service.py:286-310: the loop from index i, acc = [raised, stops]
RECURSIVE stops_loop(_, _, _, _)
stops_loop(points, min_stop_minutes, i, acc) ==
    IF i > Len(points) \/ acc.raised # Null
    THEN acc
    ELSE LET prev_point == points[i - 1]
             curr_point == points[i]
             distance == distance_between(prev_point, curr_point)
             seconds == curr_point.recorded_at - prev_point.recorded_at
             \* distance < 0.1 and seconds / 60 >= min_stop_minutes
             stops == IF distance.km100 < 10 /\ seconds >= 60 * min_stop_minutes
                      THEN Append(acc.stops,
                                  [location |-> prev_point.location,
                                   start_time |-> prev_point.recorded_at,
                                   end_time |-> curr_point.recorded_at])
                      ELSE acc.stops
         IN  stops_loop(points, min_stop_minutes, i + 1,
                        IF distance.raised # Null
                        THEN [acc EXCEPT !.raised = distance.raised]
                        ELSE [raised |-> Null, stops |-> stops])

\* tracking_service.py:264-312
detect_delivery_stops(tp, shipment_id, min_stop_minutes) ==
    LET points == query_tracking_points(tp, shipment_id)
    IN  IF Len(points) < 2
        THEN [raised |-> Null, stops |-> <<>>]
        ELSE stops_loop(points, min_stop_minutes, 2, [raised |-> Null, stops |-> <<>>])

\* ST_Length of the line through the points, in metres
RECURSIVE ST_Length(_)
ST_Length(line) ==
    IF Len(line) < 2
    THEN 0
    ELSE ST_Distance(line[1].data[2], line[1].data[1], line[2].data[2], line[2].data[1])
         + ST_Length(Tail(line))

\* tracking_service.py:131-145. The query has no ORDER BY: ST_MakeLine
\* aggregates the shipment's rows in the order the scan feeds them, scan being
\* that order as a permutation of the rows in stored order.
calculate_total_distance_traveled(tp, shipment_id, scan) ==
    LET rows == rows_of_shipment(tp, shipment_id)
    IN  ST_Length([i \in 1..Len(rows) |-> rows[scan[i]].location])

\* the orders a scan of n rows may take
Scans(n) ==
    {o \in [1..n -> 1..n] : \A i, j \in 1..n : o[i] = o[j] => i = j}

\* tracking_service.py:229-244: the loop from index i, acc = [raised, speeds],
\* speeds in hundredths of a km/h
RECURSIVE speeds_loop(_, _, _)
speeds_loop(points, i, acc) ==
    IF i > Len(points) \/ acc.raised # Null
    THEN acc
    ELSE LET prev_point == points[i - 1]
             curr_point == points[i]
             distance == distance_between(prev_point, curr_point)
             seconds == curr_point.recorded_at - prev_point.recorded_at
             speeds == IF seconds > 0
                       THEN Append(acc.speeds, (distance.km100 * 3600) \div seconds)
                       ELSE acc.speeds
         IN  speeds_loop(points, i + 1,
                         IF distance.raised # Null
                         THEN [acc EXCEPT !.raised = distance.raised]
                         ELSE [raised |-> Null, speeds |-> speeds])

RECURSIVE Sum(_)
Sum(s) == IF s = <<>> THEN 0 ELSE Head(s) + Sum(Tail(s))

RECURSIVE Max(_)
Max(s) == IF Len(s) = 1 THEN s[1]
          ELSE LET m == Max(Tail(s)) IN IF Head(s) > m THEN Head(s) ELSE m

RECURSIVE Min(_)
Min(s) == IF Len(s) = 1 THEN s[1]
          ELSE LET m == Min(Tail(s)) IN IF Head(s) < m THEN Head(s) ELSE m

\* tracking_service.py:205-262
calculate_average_speed(tp, shipment_id) ==
    LET points == query_tracking_points(tp, shipment_id)
        l == speeds_loop(points, 2, [raised |-> Null, speeds |-> <<>>])
    IN  IF Len(points) < 2
        THEN [raised |-> Null, average_speed_kmh |-> 0, max_speed_kmh |-> 0,
              message |-> "Insufficient tracking data"]
        ELSE IF l.raised # Null
        THEN [raised |-> l.raised, average_speed_kmh |-> 0, max_speed_kmh |-> 0,
              message |-> Null]
        ELSE IF l.speeds = <<>>
        THEN [raised |-> Null, average_speed_kmh |-> 0, max_speed_kmh |-> 0,
              message |-> "Could not calculate speed"]
        ELSE [raised |-> Null, average_speed_kmh |-> Sum(l.speeds) \div Len(l.speeds),
              max_speed_kmh |-> Max(l.speeds), min_speed_kmh |-> Min(l.speeds),
              message |-> Null]

\* tracking_service.py:43-48: the positional parameters
\* (db, driver_id, latitude, longitude)
update_driver_current_location_params == 4
\* tracking_service.py:67-73: the required positional parameters
\* (db, shipment_id, latitude, longitude); threshold_meters has a default
calculate_route_deviation_params == 4

\* tracking_service.py:361-438. The summary dict of lines 380-396 is built
\* for every shipment found, before the points are looked at: line 385 reads
\* shipment.origin.x. Past it, line 402 reads latest_point.x, line 409 calls
\* update_driver_current_location with two positional arguments and line 413
\* calculate_route_deviation with two; the first that raises ends the request.
get_shipment_tracking_summary(tp, ships, shipment_id) ==
    IF shipment_id \notin DOMAIN ships
    THEN [raised |-> Null, error |-> "Shipment not found", status |-> Null,
          tracking_points_count |-> 0, current_location |-> None, has_eta |-> FALSE,
          message |-> Null]
    ELSE
    LET shipment == ships[shipment_id]
        tracking_points_ == query_tracking_points(tp, shipment_id)
        latest_point == tracking_points_[Len(tracking_points_)]
        head == evaluate(<<X(shipment.origin), Y(shipment.origin),
                           X(shipment.destination), Y(shipment.destination)>>)
        current == evaluate(<<X(latest_point), Y(latest_point)>>)
        accuracy == IF 2 # update_driver_current_location_params THEN TypeError ELSE Null
        deviation == IF 2 < calculate_route_deviation_params THEN TypeError ELSE Null
        speed_info == calculate_average_speed(tp, shipment_id)
        stops == detect_delivery_stops(tp, shipment_id, 5)
        wants_eta == shipment.status \in {"in_transit", "assigned"}
        eta_args == evaluate(<<X(latest_point), Y(latest_point),
                               X(shipment.destination), Y(shipment.destination),
                               Value(latest_point.speed_kmh)>>)
        eta_info == calculate_estimated_delivery_time(
                        eta_args.values[1], eta_args.values[2], eta_args.values[3],
                        eta_args.values[4], eta_args.values[5])
        raised == IF current.raised # Null THEN current.raised
                  ELSE IF accuracy # Null THEN accuracy
                  ELSE IF deviation # Null THEN deviation
                  ELSE IF speed_info.raised # Null THEN speed_info.raised
                  ELSE IF stops.raised # Null THEN stops.raised
                  ELSE IF wants_eta /\ eta_args.raised # Null THEN eta_args.raised
                  ELSE IF wants_eta /\ eta_info.result # Ok THEN eta_info.result
                  ELSE Null
    IN  IF head.raised # Null
        THEN [raised |-> head.raised, error |-> Null, status |-> shipment.status,
              tracking_points_count |-> 0, current_location |-> None, has_eta |-> FALSE,
              message |-> Null]
        ELSE IF tracking_points_ = <<>>
        THEN [raised |-> Null, error |-> Null, status |-> shipment.status,
              tracking_points_count |-> 0, current_location |-> None, has_eta |-> FALSE,
              message |-> "No tracking data available yet"]
        ELSE IF raised # Null
        THEN [raised |-> raised, error |-> Null, status |-> shipment.status,
              tracking_points_count |-> 0, current_location |-> None, has_eta |-> FALSE,
              message |-> Null]
        ELSE [raised |-> Null, error |-> Null, status |-> shipment.status,
              tracking_points_count |-> Len(tracking_points_),
              current_location |-> latest_point.location, has_eta |-> wants_eta,
              message |-> Null]

\* ------------------------------------------------------------------ inputs
PingDrivers == {"d1", UnknownDriver}
PingShipments == {"s1", "s2", UnknownShipment}
\* <<latitude, longitude>>; the last two lie outside [-90, 90] x [-180, 180]
PingCoords == {<<1, 2>>, <<3, 4>>, <<91, 0>>, <<0, 181>>}
PingSpeeds == {None}
Admin == [role |-> "admin", id |-> "u0", driver_id |-> Null]
Shipper == [role |-> "shipper", id |-> "u1", driver_id |-> Null]
Manager == [role |-> "manager", id |-> "u3", driver_id |-> Null]

\* ------------------------------------------------------------------ state
Workers == {"w1", "w2"}             \* request workers of the server

NoBody == [status |-> Null, driver_id |-> Null, actual_cost |-> None]

\* a worker with no request in hand
IdleRequest ==
    [pc |-> "idle", shipment_id |-> Null, update_data |-> NoBody, current_user |-> Admin,
     driver_id |-> Null, loaded |-> None, flushed |-> None, shipment |-> None,
     call |-> Null, args |-> None, drivers |-> <<>>, driver |-> None, assigned |-> 0,
     in_transit |-> 0, workload |-> None, modified |-> {},
     nearest |-> [driver |-> Null, distance |-> None, raised |-> Null]]

\* driver_model.py:20-25, the columns the handlers read or write
DriverRow(location) ==
    [is_active |-> TRUE, status |-> "available", vehicle_id |-> Null, location |-> location]

\* shipment_model.py:24-48, the columns the handlers read or write
ShipmentRow ==
    [status |-> "created", driver_id |-> Null, shipper_id |-> "u1",
     origin |-> from_shape(2, 1), destination |-> from_shape(6, 5),
     assigned_at |-> None, picked_up_at |-> None, delivered_at |-> None,
     actual_cost |-> None]

\* tracking_model.py:12-17: a row of table tracking_points
StoredPoint(id, recorded_at, shipment_id, location) ==
    [id |-> id, shipment_id |-> shipment_id, location |-> location, speed_kmh |-> None,
     recorded_at |-> recorded_at, notes |-> Null]

\* models/vehicle_model.py:29
VehicleRow(capacity_kg) == [capacity_kg |-> capacity_kg]

NoResponse == [op |-> "none"]

\* a database holding three drivers (d2 with a known position), six
\* shipments, two vehicles, and no tracking point yet
Init ==
    /\ tracking_points = <<>>
    /\ drivers = [d \in DriverIds |->
                    DriverRow(IF d = "d2" THEN from_shape(8, 9) ELSE None)]
    /\ shipments = [s \in ShipmentIds |-> ShipmentRow]
    /\ vehicles = [v \in VehicleIds |-> VehicleRow(IF v = "v1" THEN 1000 ELSE 5)]
    /\ response = NoResponse
    /\ clock = 0
    /\ Driver_location = Column
    /\ Shipment_destination = Column
    /\ requests = [w \in Workers |-> IdleRequest]

\* POST /tracking/update (routes/tracking.py:47-64). track_driver reaches the
\* database at the commit of line 34, the SELECT and the commit of lines 49
\* and 58 and the SELECT of line 74; a request ends at the constructor of line
\* 26, before the first of them, so that it is one step.
TrackingUpdate(driver_id, shipment_id, latitude, longitude, speed_kph) ==
    LET t == track_driver(tracking_points, drivers, shipments, Driver_location,
                          NewId(tracking_points), clock,
                          driver_id, shipment_id, latitude, longitude, speed_kph)
    IN  /\ tracking_points' = t.tracking_points
        /\ drivers' = t.drivers
        /\ response' = [op |-> "track_driver", driver_id |-> driver_id,
                        shipment_id |-> shipment_id, latitude |-> latitude,
                        longitude |-> longitude, result |-> t.result]
        /\ UNCHANGED <<shipments, clock, Driver_location, Shipment_destination, requests, vehicles>>

\* GET /tracking/estimate-delivery-time (routes/tracking.py:190-205)
EstimateDeliveryTime(current_lat, current_lng, destination_lat, destination_lng, speed_kmh) ==
    LET e == calculate_estimated_delivery_time(current_lat, current_lng,
                                               destination_lat, destination_lng, speed_kmh)
    IN  /\ Driver_location' = e.Driver_location
        /\ Shipment_destination' = e.Shipment_destination
        /\ response' = [op |-> "estimate_delivery_time",
                        current_lat |-> current_lat, current_lng |-> current_lng,
                        destination_lat |-> destination_lat,
                        destination_lng |-> destination_lng,
                        speed_kmh |-> speed_kmh, result |-> e]
        /\ UNCHANGED <<tracking_points, drivers, shipments, clock, requests, vehicles>>

\* db.query(Shipment).filter(Shipment.id == shipment_id).first()
\* (routes/shipment.py:182, 240, 276): the row as the table holds it now
select_shipment(ships, shipment_id) ==
    IF shipment_id \in DOMAIN ships THEN Some(ships[shipment_id]) ELSE None

\* The shipment handlers run in worker threads, one request each, and reach
\* the database and the clock at separate moments: other requests may commit,
\* and time may pass, between any two of them. A handler is one step per
\* stretch of code between two such moments. What a session has flushed and
\* not committed is not visible to the other sessions. The row lock a
\* database may hold from a flush to the commit of its transaction is not
\* modelled; it only takes interleavings away.

\* PUT /shipments/{shipment_id}, first step: worker w takes the request and
\* runs the SELECT of routes/shipment.py:182
UpdateShipmentSelect(w, shipment_id, update_data, current_user) ==
    /\ requests[w].pc = "idle"
    /\ requests' = [requests EXCEPT ![w] =
                      [IdleRequest EXCEPT !.pc = "update_shipment",
                                          !.shipment_id = shipment_id,
                                          !.update_data = update_data,
                                          !.current_user = current_user,
                                          !.loaded = select_shipment(shipments, shipment_id)]]
    /\ UNCHANGED <<tracking_points, drivers, shipments, clock, Driver_location,
                   Shipment_destination, vehicles, response>>

\* PUT /shipments/{shipment_id}, second step: lines 184-207 on the row loaded,
\* with the clock as line 205 or 207 reads it. The request ends here when a
\* guard raises. Of the driver the SELECT of line 192 reads, the handler
\* uses columns no statement of the program writes.
UpdateShipmentStatus(w) ==
    LET r == requests[w]
        u == update_shipment_status(r.loaded, clock, r.update_data, r.current_user)
    IN  /\ r.pc = "update_shipment"
        /\ response' = IF u.raised # Null
                       THEN [op |-> "update_shipment", shipment_id |-> r.shipment_id,
                             update_data |-> r.update_data,
                             current_user |-> r.current_user, result |-> u.raised]
                       ELSE response
        /\ requests' = [requests EXCEPT ![w] =
                          IF u.raised # Null THEN IdleRequest
                          ELSE [r EXCEPT !.pc = "update_shipment_driver",
                                         !.flushed = r.loaded,
                                         !.shipment = Some(u.shipment)]]
        /\ UNCHANGED <<tracking_points, drivers, shipments, clock, Driver_location,
                       Shipment_destination, vehicles>>

\* PUT /shipments/{shipment_id}, third step: lines 209-222, with the flush
\* and the SELECT of line 211 and the clock as line 218 reads it. The request
\* ends here when the driver has no row: the session is closed and what it
\* flushed is rolled back.
UpdateShipmentDriver(w) ==
    LET r == requests[w]
        d == update_shipment_driver(r.shipment[1], drivers, clock, r.update_data,
                                    r.current_user)
    IN  /\ r.pc = "update_shipment_driver"
        /\ response' = IF d.raised # Null
                       THEN [op |-> "update_shipment", shipment_id |-> r.shipment_id,
                             update_data |-> r.update_data,
                             current_user |-> r.current_user, result |-> d.raised]
                       ELSE response
        /\ requests' = [requests EXCEPT ![w] =
                          IF d.raised # Null THEN IdleRequest
                          ELSE [r EXCEPT !.pc = "update_shipment_commit",
                                         !.flushed = IF d.autoflush THEN r.shipment
                                                     ELSE r.flushed,
                                         !.shipment = Some(d.shipment)]]
        /\ UNCHANGED <<tracking_points, drivers, shipments, clock, Driver_location,
                       Shipment_destination, vehicles>>

\* PUT /shipments/{shipment_id}, fourth step: the commit of line 224
UpdateShipmentCommit(w) ==
    LET r == requests[w]
    IN  /\ r.pc = "update_shipment_commit"
        /\ shipments' = flush_shipment(shipments, r.shipment_id, r.loaded[1],
                                       r.flushed[1], r.shipment[1])
        /\ requests' = [requests EXCEPT ![w].pc = "update_shipment_refresh"]
        /\ UNCHANGED <<tracking_points, drivers, clock, Driver_location,
                       Shipment_destination, vehicles, response>>

\* PUT /shipments/{shipment_id}, last step: db.refresh of line 225 reads the
\* row again, and the handler returns it
UpdateShipmentRefresh(w) ==
    LET r == requests[w]
        shipment == select_shipment(shipments, r.shipment_id)
    IN  /\ r.pc = "update_shipment_refresh"
        /\ response' = [op |-> "update_shipment", shipment_id |-> r.shipment_id,
                        update_data |-> r.update_data, current_user |-> r.current_user,
                        result |-> ShipmentResponse(shipment[1])]
        /\ requests' = [requests EXCEPT ![w] = IdleRequest]
        /\ UNCHANGED <<tracking_points, drivers, shipments, clock, Driver_location,
                       Shipment_destination, vehicles>>

\* DELETE /shipments/{shipment_id}, first step: the SELECT of line 240
CancelShipmentSelect(w, shipment_id, current_user) ==
    /\ requests[w].pc = "idle"
    /\ requests' = [requests EXCEPT ![w] =
                      [IdleRequest EXCEPT !.pc = "cancel_shipment",
                                          !.shipment_id = shipment_id,
                                          !.current_user = current_user,
                                          !.loaded = select_shipment(shipments, shipment_id)]]
    /\ UNCHANGED <<tracking_points, drivers, shipments, clock, Driver_location,
                   Shipment_destination, vehicles, response>>

\* DELETE /shipments/{shipment_id}, second step: lines 242-264 on the row
\* loaded, with the commit of line 262; the handler reads no clock
CancelShipmentCommit(w) ==
    LET r == requests[w]
        c == cancel_shipment(r.loaded, r.current_user)
    IN  /\ r.pc = "cancel_shipment"
        /\ shipments' = IF c.commit
                        THEN flush_shipment(shipments, r.shipment_id, r.loaded[1],
                                            r.loaded[1], c.shipment)
                        ELSE shipments
        /\ response' = [op |-> "cancel_shipment", shipment_id |-> r.shipment_id,
                        current_user |-> r.current_user,
                        result |-> IF c.raised # Null THEN c.raised ELSE Ok]
        /\ requests' = [requests EXCEPT ![w] = IdleRequest]
        /\ UNCHANGED <<tracking_points, drivers, clock, Driver_location,
                       Shipment_destination, vehicles>>

\* POST /shipments/{shipment_id}/assign, first step: the SELECT of line 276
AssignDriverSelect(w, shipment_id, driver_id) ==
    /\ requests[w].pc = "idle"
    /\ requests' = [requests EXCEPT ![w] =
                      [IdleRequest EXCEPT !.pc = "assign_driver_to_shipment",
                                          !.shipment_id = shipment_id,
                                          !.driver_id = driver_id,
                                          !.loaded = select_shipment(shipments, shipment_id)]]
    /\ UNCHANGED <<tracking_points, drivers, shipments, clock, Driver_location,
                   Shipment_destination, vehicles, response>>

\* POST /shipments/{shipment_id}/assign, second step: lines 277-298 on the row
\* loaded, with the SELECT of line 283 and the clock as line 297 reads it. The
\* request ends here when a guard raises. Of the driver, the handler uses
\* columns no statement of the program writes.
AssignDriverStamp(w) ==
    LET r == requests[w]
        a == assign_driver_to_shipment(r.loaded, drivers, clock, r.driver_id)
    IN  /\ r.pc = "assign_driver_to_shipment"
        /\ response' = IF a.raised # Null
                       THEN [op |-> "assign_driver_to_shipment",
                             shipment_id |-> r.shipment_id, driver_id |-> r.driver_id,
                             result |-> a.raised]
                       ELSE response
        /\ requests' = [requests EXCEPT ![w] =
                          IF a.raised # Null THEN IdleRequest
                          ELSE [r EXCEPT !.pc = "assign_driver_to_shipment_commit",
                                         !.flushed = r.loaded,
                                         !.shipment = Some(a.shipment)]]
        /\ UNCHANGED <<tracking_points, drivers, shipments, clock, Driver_location,
                       Shipment_destination, vehicles>>

\* POST /shipments/{shipment_id}/assign, third step: the commit of line 300
AssignDriverCommit(w) ==
    LET r == requests[w]
    IN  /\ r.pc = "assign_driver_to_shipment_commit"
        /\ shipments' = flush_shipment(shipments, r.shipment_id, r.loaded[1],
                                       r.flushed[1], r.shipment[1])
        /\ requests' = [requests EXCEPT ![w].pc = "assign_driver_to_shipment_refresh"]
        /\ UNCHANGED <<tracking_points, drivers, clock, Driver_location,
                       Shipment_destination, vehicles, response>>

\* POST /shipments/{shipment_id}/assign, last step: db.refresh of line 301
\* reads the row again, and the handler returns it
AssignDriverRefresh(w) ==
    LET r == requests[w]
        shipment == select_shipment(shipments, r.shipment_id)
    IN  /\ r.pc = "assign_driver_to_shipment_refresh"
        /\ response' = [op |-> "assign_driver_to_shipment", shipment_id |-> r.shipment_id,
                        driver_id |-> r.driver_id,
                        result |-> ShipmentResponse(shipment[1])]
        /\ requests' = [requests EXCEPT ![w] = IdleRequest]
        /\ UNCHANGED <<tracking_points, drivers, shipments, clock, Driver_location,
                       Shipment_destination, vehicles>>

\* time passes
Tick ==
    /\ clock < MaxClock
    /\ clock' = clock + 1
    /\ UNCHANGED <<tracking_points, drivers, shipments, Driver_location,
                   Shipment_destination, requests, vehicles, response>>

Ping ==
    /\ Len(tracking_points) < MaxLog
    /\ \E d \in PingDrivers, s \in PingShipments, c \in PingCoords, v \in PingSpeeds :
          TrackingUpdate(d, s, c[1], c[2], v)

Estimate ==
    \E cur \in {<<1, 2>>, <<3, 4>>} : EstimateDeliveryTime(cur[1], cur[2], 5, 6, None)

Next ==
    \/ Ping
    \/ Estimate
    \/ Tick

\* the tracking handlers
Spec == Init /\ [][Next]_vars

\* ------------------------------------------------- the tracking log under
\* ------------------------------------------------- every handler that writes
\* a table that holds up to MaxLog rows already, of s1 and s2 in turn
StoredLog(n) ==
    [i \in 1..n |-> StoredPoint(i, 0, IF i % 2 = 1 THEN "s1" ELSE "s2", from_shape(i, 0))]

InitOps ==
    /\ \E n \in 0..MaxLog : tracking_points = StoredLog(n)
    /\ drivers = [d \in DriverIds |->
                    DriverRow(IF d = "d2" THEN from_shape(8, 9) ELSE None)]
    /\ shipments = [s \in ShipmentIds |-> ShipmentRow]
    /\ vehicles = [v \in VehicleIds |-> VehicleRow(IF v = "v1" THEN 1000 ELSE 5)]
    /\ response = NoResponse
    /\ clock = 0
    /\ Driver_location = Column
    /\ Shipment_destination = Column
    /\ requests = [w \in Workers |-> IdleRequest]

OpsPing ==
    \E s \in {"s1", "s2"} : TrackingUpdate("d1", s, 1, 2, None)

Update ==
    UpdateShipmentSelect("w1", "s1", [NoBody EXCEPT !.status = "in_transit"], Admin)

Cancel ==
    CancelShipmentSelect("w2", "s1", Shipper)

Assign ==
    \E w \in Workers : AssignDriverSelect(w, "s1", "d2")

\* a request in hand goes on to its next step
Serve ==
    \E w \in Workers :
        \/ UpdateShipmentStatus(w)
        \/ UpdateShipmentDriver(w)
        \/ UpdateShipmentCommit(w)
        \/ UpdateShipmentRefresh(w)
        \/ CancelShipmentCommit(w)
        \/ AssignDriverStamp(w)
        \/ AssignDriverCommit(w)
        \/ AssignDriverRefresh(w)

NextOps ==
    \/ OpsPing
    \/ Update
    \/ Cancel
    \/ Assign
    \/ Serve
    \/ Tick

SpecOps == InitOps /\ [][NextOps]_vars

\* ------------------------------------------------- dispatch: the two ways
\* ------------------------------------------------- a shipment gets a driver,
\* ------------------------------------------------- one request at a time
AssignAny ==
    \E s \in ShipmentIds : AssignDriverSelect("w1", s, "d2")

Reassign ==
    \E s \in ShipmentIds :
        UpdateShipmentSelect("w1", s, [NoBody EXCEPT !.driver_id = "d2"], Admin)

ServeAssign ==
    \/ AssignDriverStamp("w1")
    \/ AssignDriverCommit("w1")
    \/ AssignDriverRefresh("w1")
    \/ UpdateShipmentStatus("w1")
    \/ UpdateShipmentDriver("w1")
    \/ UpdateShipmentCommit("w1")
    \/ UpdateShipmentRefresh("w1")

NextAssign ==
    \/ AssignAny
    \/ Reassign
    \/ ServeAssign
    \/ Tick

SpecAssign == Init /\ [][NextAssign]_vars

\* ------------------------------------------------- driver analytics while
\* ------------------------------------------------- shipments and drivers
\* ------------------------------------------------- are written
\* The functions of driver_service.py send one statement at a time on a
\* session that reads what is committed when the statement runs: a request
\* of another worker may commit between any two of them. A function is one
\* step per statement it sends, with the code up to the next statement.

\* the value check_driver_availability_for_shipment returns goes to its
\* caller: to the request that called it, or to the loop of
\* find_nearest_available_driver (driver_service.py:362-386), which raises,
\* returns after the last candidate, or calls it for the next one. The
\* result is [request, response], response None while the call goes on.
return_availability(r, availability) ==
    IF r.call = "check_driver_availability_for_shipment"
    THEN [request |-> IdleRequest,
          response |-> Some([op |-> r.call, driver_id |-> r.driver_id,
                             shipment_weight_kg |-> r.args.shipment_weight_kg,
                             result |-> availability])]
    ELSE LET nearest == nearest_loop(Head(r.drivers), availability, r.nearest,
                                     r.args.origin_lat, r.args.origin_lng,
                                     r.args.max_distance_km)
             rest == Tail(r.drivers)
         IN  IF nearest.raised # Null \/ rest = <<>>
             THEN [request |-> IdleRequest,
                   response |-> Some([op |-> r.call, order |-> r.args.order,
                                      origin_lat |-> r.args.origin_lat,
                                      origin_lng |-> r.args.origin_lng,
                                      shipment_weight_kg |-> r.args.shipment_weight_kg,
                                      max_distance_km |-> r.args.max_distance_km,
                                      result |-> nearest])]
             ELSE [request |-> [r EXCEPT !.pc = "check_driver_availability_for_shipment",
                                         !.drivers = rest,
                                         !.driver_id = Head(rest).id,
                                         !.nearest = nearest,
                                         !.driver = None,
                                         !.assigned = 0,
                                         !.in_transit = 0,
                                         !.workload = None],
                   response |-> None]

\* find_nearest_available_driver(origin_lat, origin_lng, shipment_weight_kg,
\* db, max_distance_km), driver_service.py:350-358: the filter of line 354
\* reads the class attribute Driver.location, then the SELECT gives the
\* candidates. With no candidate the function returns None (383-386).
FindNearestAvailableDriver(w, order, origin_lat, origin_lng, shipment_weight_kg, max_distance_km) ==
    LET location == getattr(Driver_location, "isnot")
        candidates == nearest_candidates(drivers, order)
        args == [order |-> order, origin_lat |-> origin_lat, origin_lng |-> origin_lng,
                 shipment_weight_kg |-> shipment_weight_kg,
                 max_distance_km |-> max_distance_km]
        nearest == [driver |-> Null, distance |-> None, raised |-> location.raised]
        returns == location.raised # Null \/ candidates = <<>>
    IN  /\ requests[w].pc = "idle"
        /\ requests' = [requests EXCEPT ![w] =
                          IF returns THEN IdleRequest
                          ELSE [IdleRequest EXCEPT
                                  !.pc = "check_driver_availability_for_shipment",
                                  !.call = "find_nearest_available_driver",
                                  !.args = args,
                                  !.drivers = candidates,
                                  !.driver_id = Head(candidates).id,
                                  !.nearest = nearest]]
        /\ response' = IF returns
                       THEN [op |-> "find_nearest_available_driver", order |-> order,
                             origin_lat |-> origin_lat, origin_lng |-> origin_lng,
                             shipment_weight_kg |-> shipment_weight_kg,
                             max_distance_km |-> max_distance_km, result |-> nearest]
                       ELSE response
        /\ UNCHANGED <<tracking_points, drivers, shipments, clock, Driver_location,
                       Shipment_destination, vehicles>>

\* check_driver_availability_for_shipment(driver_id, shipment_weight_kg, db),
\* driver_service.py:236-254, called by a request or by the loop of
\* find_nearest_available_driver (line 362). In the loop the session holds the
\* driver already, as the candidate it loaded: the SELECT of line 236 finds
\* the row and the query gives that object, its attributes as loaded.
CheckDriverAvailabilityForShipment(w, driver_id, shipment_weight_kg) ==
    LET called == requests[w].pc = "check_driver_availability_for_shipment"
        r == IF called THEN requests[w]
             ELSE [IdleRequest EXCEPT
                     !.call = "check_driver_availability_for_shipment",
                     !.driver_id = driver_id,
                     !.args = [driver_id |-> driver_id,
                               shipment_weight_kg |-> shipment_weight_kg]]
        driver == IF called /\ driver_id \in DOMAIN drivers
                  THEN Some(Head(r.drivers).driver)
                  ELSE select_driver(drivers, driver_id)
        availability == check_driver_availability_driver(driver)
        returned == return_availability(r, availability[1])
    IN  /\ \/ requests[w].pc = "idle"
           \/ /\ called
              /\ driver_id = r.driver_id
              /\ shipment_weight_kg = r.args.shipment_weight_kg
        /\ requests' = [requests EXCEPT ![w] =
                          IF availability # None THEN returned.request
                          ELSE [r EXCEPT !.pc = "get_driver_active_workload",
                                         !.driver = driver]]
        /\ response' = IF availability # None /\ returned.response # None
                       THEN returned.response[1]
                       ELSE response
        /\ UNCHANGED <<tracking_points, drivers, shipments, clock, Driver_location,
                       Shipment_destination, vehicles>>

\* get_driver_active_workload(driver_id, db), driver_service.py:105-108: the
\* COUNT of the assigned shipments, called by a request or by
\* check_driver_availability_for_shipment (line 256)
GetDriverActiveWorkload(w, driver_id) ==
    LET called == requests[w].pc = "get_driver_active_workload"
        r == IF called THEN requests[w]
             ELSE [IdleRequest EXCEPT !.call = "get_driver_active_workload",
                                      !.driver_id = driver_id,
                                      !.args = [driver_id |-> driver_id]]
    IN  /\ \/ requests[w].pc = "idle"
           \/ called /\ driver_id = r.driver_id
        /\ requests' = [requests EXCEPT ![w] =
                          [r EXCEPT !.pc = "get_driver_active_workload_in_transit",
                                    !.assigned = count_shipments(shipments, driver_id,
                                                                 "assigned")]]
        /\ UNCHANGED <<tracking_points, drivers, shipments, clock, Driver_location,
                       Shipment_destination, vehicles, response>>

\* get_driver_active_workload, driver_service.py:110-113: the COUNT of the
\* shipments in transit
GetDriverActiveWorkloadInTransit(w) ==
    LET r == requests[w]
    IN  /\ r.pc = "get_driver_active_workload_in_transit"
        /\ requests' = [requests EXCEPT ![w] =
                          [r EXCEPT !.pc = "get_driver_active_workload_active_shipments",
                                    !.in_transit = count_shipments(shipments, r.driver_id,
                                                                   "in_transit")]]
        /\ UNCHANGED <<tracking_points, drivers, shipments, clock, Driver_location,
                       Shipment_destination, vehicles, response>>

\* get_driver_active_workload, driver_service.py:115-142: the SELECT of the
\* active shipments and the value returned, to the request or to
\* check_driver_availability_for_shipment, which goes on with lines 257-275
GetDriverActiveWorkloadActiveShipments(w) ==
    LET r == requests[w]
        workload == get_driver_active_workload(r.assigned, r.in_transit)
        availability == check_driver_availability_workload(r.driver[1], workload)
        returned == return_availability(r, availability[1])
        returns == r.call = "get_driver_active_workload" \/ availability # None
    IN  /\ r.pc = "get_driver_active_workload_active_shipments"
        /\ requests' = [requests EXCEPT ![w] =
                          IF r.call = "get_driver_active_workload" THEN IdleRequest
                          ELSE IF availability # None THEN returned.request
                          ELSE [r EXCEPT !.pc = "check_driver_availability_for_shipment_vehicle",
                                         !.workload = Some(workload)]]
        /\ response' = IF r.call = "get_driver_active_workload"
                       THEN [op |-> r.call, driver_id |-> r.driver_id, result |-> workload]
                       ELSE IF availability # None /\ returned.response # None
                       THEN returned.response[1]
                       ELSE response
        /\ UNCHANGED <<tracking_points, drivers, shipments, clock, Driver_location,
                       Shipment_destination, vehicles>>

\* check_driver_availability_for_shipment, driver_service.py:265-282: the
\* SELECT of the vehicle the driver row names, and the value returned
CheckDriverAvailabilityVehicle(w) ==
    LET r == requests[w]
        vehicle_id == r.driver[1].vehicle_id
        vehicle == IF vehicle_id \in DOMAIN vehicles THEN Some(vehicles[vehicle_id])
                   ELSE None
        availability == check_driver_availability_vehicle(
                            r.driver[1], r.workload[1], vehicle, r.args.shipment_weight_kg)
        returned == return_availability(r, availability)
    IN  /\ r.pc = "check_driver_availability_for_shipment_vehicle"
        /\ requests' = [requests EXCEPT ![w] = returned.request]
        /\ response' = IF returned.response # None THEN returned.response[1] ELSE response
        /\ UNCHANGED <<tracking_points, drivers, shipments, clock, Driver_location,
                       Shipment_destination, vehicles>>

\* update_driver_location(db, driver_id, current_latitude, current_longitude),
\* driver_service.py:144-153: the SELECT of the driver and, on the row found,
\* the assignment of the point to driver.location. The assignment goes
\* through the class attribute Driver.location: bound to the mapped column, it
\* marks the attribute as modified in the session; once
\* tracking_service.py:322 has bound it to a point, it is a plain attribute of
\* the object and the session knows of no change.
UpdateDriverLocation(w, driver_id, current_latitude, current_longitude) ==
    LET driver == select_driver(drivers, driver_id)
        args == [driver_id |-> driver_id, current_latitude |-> current_latitude,
                 current_longitude |-> current_longitude]
    IN  /\ requests[w].pc = "idle"
        /\ requests' = [requests EXCEPT ![w] =
                          IF driver = None THEN IdleRequest
                          ELSE [IdleRequest EXCEPT !.pc = "update_driver_location_commit",
                                                   !.call = "update_driver_location",
                                                   !.driver_id = driver_id,
                                                   !.args = args,
                                                   !.driver = driver,
                                                   !.modified =
                                                       IF Driver_location = Column
                                                       THEN {"location"} ELSE {}]]
        /\ response' = IF driver = None
                       THEN [op |-> "update_driver_location", driver_id |-> driver_id,
                             result |-> ErrDriverNotFound]
                       ELSE response
        /\ UNCHANGED <<tracking_points, drivers, shipments, clock, Driver_location,
                       Shipment_destination, vehicles>>

\* update_driver_location, driver_service.py:155: the commit, which writes
\* the location when the session holds it as modified
UpdateDriverLocationCommit(w) ==
    LET r == requests[w]
        point == from_shape(r.args.current_longitude, r.args.current_latitude)
    IN  /\ r.pc = "update_driver_location_commit"
        /\ drivers' = IF "location" \in r.modified
                      THEN [drivers EXCEPT ![r.driver_id].location = point]
                      ELSE drivers
        /\ requests' = [requests EXCEPT ![w].pc = "update_driver_location_refresh"]
        /\ UNCHANGED <<tracking_points, shipments, clock, Driver_location,
                       Shipment_destination, vehicles, response>>

\* update_driver_location, driver_service.py:156-158: db.refresh reads the
\* row again, and the function returns it
UpdateDriverLocationRefresh(w) ==
    LET r == requests[w]
    IN  /\ r.pc = "update_driver_location_refresh"
        /\ response' = [op |-> "update_driver_location", driver_id |-> r.driver_id,
                        result |-> Ok]
        /\ requests' = [requests EXCEPT ![w] = IdleRequest]
        /\ UNCHANGED <<tracking_points, drivers, shipments, clock, Driver_location,
                       Shipment_destination, vehicles>>

\* GET /driver-analytics/nearest-driver (routes/driver.py:150-176): the
\* dependency require_staff, then the handler, which calls
\* find_nearest_available_driver
NearestDriver(w, current_user, order, origin_lat, origin_lng, shipment_weight_kg, max_distance_km) ==
    LET staff == require_staff(current_user)
    IN  IF staff # Null
        THEN /\ requests[w].pc = "idle"
             /\ response' = [op |-> "nearest_driver", current_user |-> current_user,
                             result |-> [raised |-> staff]]
             /\ UNCHANGED <<tracking_points, drivers, shipments, clock, Driver_location,
                            Shipment_destination, requests, vehicles>>
        ELSE FindNearestAvailableDriver(w, order, origin_lat, origin_lng,
                                        shipment_weight_kg, max_distance_km)

\* GET /driver-analytics/{driver_id}/availability (routes/driver.py:118-129)
DriverAvailability(w, current_user, driver_id, shipment_weight_kg) ==
    LET staff == require_staff(current_user)
    IN  IF staff # Null
        THEN /\ requests[w].pc = "idle"
             /\ response' = [op |-> "driver_availability", current_user |-> current_user,
                             result |-> [raised |-> staff]]
             /\ UNCHANGED <<tracking_points, drivers, shipments, clock, Driver_location,
                            Shipment_destination, requests, vehicles>>
        ELSE CheckDriverAvailabilityForShipment(w, driver_id, shipment_weight_kg)

\* GET /driver-analytics/{driver_id}/workload (routes/driver.py:56-62)
DriverWorkload(w, current_user, driver_id) ==
    LET staff == require_staff(current_user)
    IN  IF staff # Null
        THEN /\ requests[w].pc = "idle"
             /\ response' = [op |-> "driver_workload", current_user |-> current_user,
                             result |-> [raised |-> staff]]
             /\ UNCHANGED <<tracking_points, drivers, shipments, clock, Driver_location,
                            Shipment_destination, requests, vehicles>>
        ELSE GetDriverActiveWorkload(w, driver_id)

\* rows a driver may have: eligible, and the ways of not being eligible. The
\* last names a vehicle no row of vehicles carries. driver_model.py:20
\* declares drivers.vehicle_id an Integer referencing vehicles.id, which
\* vehicle_model.py:24 declares a UUID: the database of the Geography and
\* UUID columns does not make a foreign key between the two types, so the
\* create_all of main.py:7 makes no drivers table and the program runs on
\* one made elsewhere, with the constraint or without. The row is in a table
\* made without; driver_service.py:266 provides for the lookup finding
\* nothing.
DriverProfiles ==
    {[is_active |-> TRUE, status |-> "available", vehicle_id |-> "v1", location |-> from_shape(0, 2)],
     [is_active |-> FALSE, status |-> "off_duty", vehicle_id |-> "v1", location |-> from_shape(0, 2)],
     [is_active |-> TRUE, status |-> "off_duty", vehicle_id |-> "v1", location |-> from_shape(0, 2)],
     [is_active |-> TRUE, status |-> "available", vehicle_id |-> "v1", location |-> None],
     [is_active |-> TRUE, status |-> "available", vehicle_id |-> Null, location |-> from_shape(0, 2)],
     [is_active |-> TRUE, status |-> "available", vehicle_id |-> "v2", location |-> from_shape(0, 2)],
     [is_active |-> TRUE, status |-> "available", vehicle_id |-> "vx", location |-> from_shape(0, 2)]}

\* the orders in which a query without ORDER BY may return the drivers
Orders ==
    {o \in [1..Cardinality(DriverIds) -> DriverIds] : \A d \in DriverIds : \E i \in DOMAIN o : o[i] = d}

\* the shipments d1 holds: one short of the workload limit, or at it. Of the
\* shipments held, s1 is in transit and the others assigned; s6 is a
\* delivery d1 has completed.
HeldSets ==
    {{"s1", "s2", "s3", "s4"}, {"s1", "s2", "s3", "s4", "s5"}}

HeldShipments(held) ==
    [s \in ShipmentIds |->
        IF s \in held
        THEN [ShipmentRow EXCEPT !.driver_id = "d1",
                                       !.status = IF s = "s1" THEN "in_transit" ELSE "assigned",
                                       !.assigned_at = Some(0)]
        ELSE IF s = "s6"
        THEN [ShipmentRow EXCEPT !.driver_id = "d1", !.status = "delivered",
                                       !.assigned_at = Some(0), !.delivered_at = Some(0)]
        ELSE ShipmentRow]

\* d1 is any of the profiles; d2 is on duty 10 km away with the large
\* vehicle, or off duty beside a d1 with nothing against it; d3 is inactive
InitDrivers ==
    /\ tracking_points = <<>>
    /\ \E profile \in DriverProfiles, duty \in {"on_duty", "off_duty"} :
          /\ duty = "off_duty" => (profile.status = "available" /\ profile.vehicle_id = "v1"
                                      /\ profile.location # None)
          /\ drivers = [d \in DriverIds |->
                           IF d = "d1" THEN profile
                           ELSE IF d = "d2"
                           THEN [is_active |-> TRUE, status |-> duty, vehicle_id |-> "v1",
                                 location |-> from_shape(0, 10)]
                           ELSE [is_active |-> FALSE, status |-> "available",
                                 vehicle_id |-> Null, location |-> None]]
    /\ \E held \in HeldSets : shipments = HeldShipments(held)
    /\ vehicles = [v \in VehicleIds |-> VehicleRow(IF v = "v1" THEN 1000 ELSE 5)]
    /\ clock = 0
    /\ Driver_location = Column
    /\ Shipment_destination = Column
    /\ requests = [w \in Workers |-> IdleRequest]
    /\ response = NoResponse

\* w2 serves the analytics; w1 moves the shipment s1 that d1 has in transit
\* back to assigned and the assigned shipment s2 into transit (d1 holds as
\* many active shipments after as before), stores a position for d1, and
\* asks for a delivery estimate
NextDrivers ==
    \/ \E order \in {o \in Orders : o[3] = "d3"} :
          FindNearestAvailableDriver("w2", order, 0, 0, 10, 50)
    \/ FindNearestAvailableDriver("w2", <<"d1", "d2", "d3">>, 0, 0, 10, 1)
    \/ \E d \in {"d1", UnknownDriver} : CheckDriverAvailabilityForShipment("w2", d, 10)
    \/ GetDriverActiveWorkload("w2", "d1")
    \/ /\ requests["w2"].pc = "check_driver_availability_for_shipment"
       /\ CheckDriverAvailabilityForShipment("w2", requests["w2"].driver_id,
                                             requests["w2"].args.shipment_weight_kg)
    \/ /\ requests["w2"].pc = "get_driver_active_workload"
       /\ GetDriverActiveWorkload("w2", requests["w2"].driver_id)
    \/ GetDriverActiveWorkloadInTransit("w2")
    \/ GetDriverActiveWorkloadActiveShipments("w2")
    \/ CheckDriverAvailabilityVehicle("w2")
    \/ \E current_user \in {Admin, Manager, Shipper} :
          NearestDriver("w2", current_user, <<"d1", "d2", "d3">>, 0, 0, 10, 50)
    \/ \E current_user \in {Admin, Manager, Shipper} :
          DriverAvailability("w2", current_user, "d1", 10)
    \/ \E current_user \in {Admin, Manager, Shipper} :
          DriverWorkload("w2", current_user, "d1")
    \/ \E moved \in {<<"s1", "assigned">>, <<"s2", "in_transit">>} :
          UpdateShipmentSelect("w1", moved[1], [NoBody EXCEPT !.status = moved[2]], Admin)
    \/ UpdateShipmentStatus("w1")
    \/ UpdateShipmentDriver("w1")
    \/ UpdateShipmentCommit("w1")
    \/ UpdateShipmentRefresh("w1")
    \/ UpdateDriverLocation("w1", "d1", 2, 0)
    \/ UpdateDriverLocationCommit("w1")
    \/ UpdateDriverLocationRefresh("w1")
    \/ EstimateDeliveryTime(1, 2, 5, 6, None)

SpecDrivers == InitDrivers /\ [][NextDrivers]_vars

\* ------------------------------------------------- tracking analytics over
\* ------------------------------------------------- any short log of s1
MaxPoints == 3            \* rows of the log the analytics read
Times == {0, 1, 24, 360}  \* recorded_at, in seconds
Lngs == {0, 1, 2}         \* positions 1 km apart along the line latitude = 0
LastTime == 360

\* Any short log of s1 the table may hold: the rows in stored order, which
\* need not be recorded_at order. s1 is in transit or delivered.
InitAnalytics ==
    /\ \E n \in 0..MaxPoints :
         \E f \in [1..n -> Times \X Lngs] :
            tracking_points = [i \in 1..n |->
                                 StoredPoint(i, f[i][1], "s1", from_shape(f[i][2], 0))]
    /\ drivers = [d \in DriverIds |-> DriverRow(None)]
    /\ \E st \in {"in_transit", "delivered"} :
         shipments = [s \in ShipmentIds |->
                        IF s = "s1" THEN [ShipmentRow EXCEPT !.status = st,
                                                                      !.driver_id = "d1"]
                        ELSE ShipmentRow]
    /\ vehicles = [v \in VehicleIds |-> VehicleRow(IF v = "v1" THEN 1000 ELSE 5)]
    /\ clock = LastTime
    /\ Driver_location = Column
    /\ Shipment_destination = Column
    /\ requests = [w \in Workers |-> IdleRequest]
    /\ response = NoResponse

\* GET /tracking/shipment/{shipment_id}/validate (routes/tracking.py:225-232)
ValidateSequence(shipment_id) ==
    /\ response' = [op |-> "validate", shipment_id |-> shipment_id,
                    result |-> validate_tracking_point_sequence(tracking_points, shipment_id)]
    /\ UNCHANGED <<tracking_points, drivers, shipments, clock, Driver_location,
                   Shipment_destination, requests, vehicles>>

\* GET /tracking/shipment/{shipment_id}/stops (routes/tracking.py:172-184)
DeliveryStops(shipment_id, min_stop_minutes) ==
    /\ response' = [op |-> "stops", shipment_id |-> shipment_id,
                    min_stop_minutes |-> min_stop_minutes,
                    result |-> detect_delivery_stops(tracking_points, shipment_id,
                                                     min_stop_minutes)]
    /\ UNCHANGED <<tracking_points, drivers, shipments, clock, Driver_location,
                   Shipment_destination, requests, vehicles>>

\* GET /tracking/shipment/{shipment_id}/total-distance (routes/tracking.py:71-81)
TotalDistance(shipment_id, scan) ==
    /\ response' = [op |-> "total_distance", shipment_id |-> shipment_id, scan |-> scan,
                    result |-> calculate_total_distance_traveled(tracking_points,
                                                                 shipment_id, scan)]
    /\ UNCHANGED <<tracking_points, drivers, shipments, clock, Driver_location,
                   Shipment_destination, requests, vehicles>>

\* GET /tracking/shipment/{shipment_id}/average-speed (routes/tracking.py:159-166)
AverageSpeed(shipment_id) ==
    /\ response' = [op |-> "average_speed", shipment_id |-> shipment_id,
                    result |-> calculate_average_speed(tracking_points, shipment_id)]
    /\ UNCHANGED <<tracking_points, drivers, shipments, clock, Driver_location,
                   Shipment_destination, requests, vehicles>>

\* GET /tracking/shipment/{shipment_id}/summary (routes/tracking.py:212-219)
TrackingSummary(shipment_id) ==
    /\ response' = [op |-> "summary", shipment_id |-> shipment_id,
                    result |-> get_shipment_tracking_summary(tracking_points, shipments,
                                                             shipment_id)]
    /\ UNCHANGED <<tracking_points, drivers, shipments, clock, Driver_location,
                   Shipment_destination, requests, vehicles>>

NextAnalytics ==
    \/ ValidateSequence("s1")
    \/ \E min_stop_minutes \in {5, 10} : DeliveryStops("s1", min_stop_minutes)
    \/ \E scan \in Scans(Len(rows_of_shipment(tracking_points, "s1"))) :
          TotalDistance("s1", scan)
    \/ AverageSpeed("s1")
    \/ \E s \in {"s1", "s2", UnknownShipment} : TrackingSummary(s)

SpecAnalytics == InitAnalytics /\ [][NextAnalytics]_vars

\* ------------------------------------------------- the distance travelled
\* ------------------------------------------------- as the pings come in
MaxTrail == 3             \* rows the log of s1 may hold

\* a table that holds a trail of s1 already: up to MaxTrail rows along the
\* line latitude = 0, recorded one second apart
InitDistance ==
    /\ \E n \in 0..MaxTrail :
         \E f \in [1..n -> Lngs] :
            tracking_points = [i \in 1..n |-> StoredPoint(i, i, "s1", from_shape(f[i], 0))]
    /\ drivers = [d \in DriverIds |-> DriverRow(None)]
    /\ shipments = [s \in ShipmentIds |->
                      IF s = "s1" THEN [ShipmentRow EXCEPT !.status = "in_transit",
                                                           !.driver_id = "d1"]
                      ELSE ShipmentRow]
    /\ vehicles = [v \in VehicleIds |-> VehicleRow(IF v = "v1" THEN 1000 ELSE 5)]
    /\ clock = MaxTrail
    /\ Driver_location = Column
    /\ Shipment_destination = Column
    /\ requests = [w \in Workers |-> IdleRequest]
    /\ response = NoResponse

NextDistance ==
    \/ /\ Len(tracking_points) <= MaxTrail
       /\ \E lng \in Lngs : TrackingUpdate("d1", "s1", 0, lng, None)
    \/ \E scan \in Scans(Len(rows_of_shipment(tracking_points, "s1"))) :
          TotalDistance("s1", scan)

SpecDistance == InitDistance /\ [][NextDistance]_vars

\* ------------------------------------------------- the delivery-time
\* ------------------------------------------------- estimate on its own
\* speeds a request may carry: absent, zero, positive, negative
EstimateSpeeds == {None, Some(0), Some(40), Some(80), Some(0 - 5)}

NextEstimate ==
    \/ \E cur \in {<<0, 0>>, <<0, 10>>, <<1, 0>>}, dest \in {<<0, 40>>, <<0, 10>>, <<2, 0>>},
          speed_kmh \in EstimateSpeeds :
          EstimateDeliveryTime(cur[1], cur[2], dest[1], dest[2], speed_kmh)
    \/ Tick

SpecEstimate == Init /\ [][NextEstimate]_vars

\* ------------------------------------------------- vehicle selection over
\* ------------------------------------------------- any small fleet
\* vehicle_model.py:21-33, the columns the selection reads
Vehicle(vehicle_type, capacity_kg, status, is_active) ==
    [vehicle_type |-> vehicle_type, capacity_kg |-> capacity_kg,
     status |-> status, is_active |-> is_active]

\* vehicle_service.py:57-61: the rows the query selects, in the order the
\* database returns the table (order: every vehicle id once)
suitable_vehicles(veh, order, weight_kg) ==
    LET selected(id) == /\ veh[id].status = "available"
                        /\ veh[id].is_active
                        /\ veh[id].capacity_kg >= weight_kg
    IN  SelectSeq(order, selected)

\* the loops of vehicle_service.py:69-71, 75-77 and 81-83: the first row of
\* one of the types, Null when the loop ends without returning
first_of_type(veh, suitable, types) ==
    LET hits == {i \in 1..Len(suitable) : veh[suitable[i]].vehicle_type \in types}
    IN  IF hits = {} THEN Null
        ELSE suitable[CHOOSE i \in hits : \A j \in hits : i <= j]

\* a selection that would take the first suitable row whatever its type
get_optimal_vehicle_for_shipment_first(weight_kg, distance_km, veh, order) ==
    LET suitable == suitable_vehicles(veh, order, weight_kg)
    IN  IF suitable = <<>> THEN Null ELSE suitable[1]

\* vehicle_service.py:40-86; the result is the id of the row returned
get_optimal_vehicle_for_shipment(weight_kg, distance_km, veh, order) ==
    LET suitable == suitable_vehicles(veh, order, weight_kg)
        types == IF distance_km < 5 /\ weight_kg < 10 THEN {"motorcycle"}
                 ELSE IF distance_km < 20 /\ weight_kg < 500 THEN {"van", "pickup"}
                 ELSE {"truck"}
        match == first_of_type(veh, suitable, types)
    IN  IF suitable = <<>> THEN Null
        ELSE IF match # Null THEN match
        ELSE suitable[1]

FleetIds == {"v1", "v2", "v3"}          \* rows of table vehicles

\* rows a vehicle may have: one of each type, and the ways of not being
\* suitable
VehicleProfiles ==
    {Vehicle("motorcycle", 8, "available", TRUE),
     Vehicle("van", 600, "available", TRUE),
     Vehicle("pickup", 500, "available", TRUE),
     Vehicle("truck", 2000, "available", TRUE),
     Vehicle("motorcycle", 5, "available", TRUE),
     Vehicle("motorcycle", 20, "in_use", TRUE),
     Vehicle("van", 600, "available", FALSE)}

\* the orders in which a query without ORDER BY may return the vehicles
FleetOrders ==
    {o \in [1..Cardinality(FleetIds) -> FleetIds] : \A v \in FleetIds : \E i \in DOMAIN o : o[i] = v}

InitVehicles ==
    /\ tracking_points = <<>>
    /\ drivers = [d \in DriverIds |-> DriverRow(None)]
    /\ shipments = [s \in ShipmentIds |-> ShipmentRow]
    /\ vehicles \in [FleetIds -> VehicleProfiles]
    /\ clock = 0
    /\ Driver_location = Column
    /\ Shipment_destination = Column
    /\ requests = [w \in Workers |-> IdleRequest]
    /\ response = NoResponse

\* GET /vehicle-analytics/recommend (routes/vehicle.py:62-83)
RecommendVehicle(order, weight_kg, distance_km) ==
    /\ response' = [op |-> "recommend_vehicle", order |-> order,
                    weight_kg |-> weight_kg, distance_km |-> distance_km,
                    result |-> get_optimal_vehicle_for_shipment(
                                   weight_kg, distance_km, vehicles, order)]
    /\ UNCHANGED <<tracking_points, drivers, shipments, clock, Driver_location,
                   Shipment_destination, requests, vehicles>>

NextVehicles ==
    \E order \in FleetOrders, weight_kg \in {8, 10, 500},
       distance_km \in {3, 5, 20} :
        RecommendVehicle(order, weight_kg, distance_km)

SpecVehicles == InitVehicles /\ [][NextVehicles]_vars

\* ------------------------------------------------- the life of one shipment
\* ------------------------------------------------- under the three handlers
\* a user of role driver whose drivers row is d1 (routes/shipment.py:191-192)
DriverUser == [role |-> "driver", id |-> "u2", driver_id |-> "d1"]

\* request bodies of PUT /shipments/{shipment_id} (schemas/shipment.py:34-38):
\* a status, a driver, or both with a cost; d3 is inactive and dx has no row
UpdateBodies ==
    {[NoBody EXCEPT !.status = "in_transit"],
     [NoBody EXCEPT !.status = "delivered"],
     [NoBody EXCEPT !.status = "created"],
     [NoBody EXCEPT !.driver_id = "d1"],
     [NoBody EXCEPT !.status = "in_transit", !.driver_id = "d1"],
     [NoBody EXCEPT !.driver_id = "d3"],
     [NoBody EXCEPT !.driver_id = UnknownDriver],
     [status |-> "delivered", driver_id |-> UnknownDriver, actual_cost |-> Some(20)]}

\* what the driver sends: a status, possibly with a driver_id
DriverBodies ==
    {[NoBody EXCEPT !.status = "in_transit"],
     [NoBody EXCEPT !.status = "delivered", !.driver_id = UnknownDriver]}

InitShipments ==
    /\ tracking_points = <<>>
    /\ drivers = [d \in DriverIds |->
                    IF d = "d3" THEN [DriverRow(None) EXCEPT !.is_active = FALSE]
                    ELSE DriverRow(None)]
    /\ shipments = [s \in ShipmentIds |-> ShipmentRow]
    /\ vehicles = [v \in VehicleIds |-> VehicleRow(1000)]
    /\ clock = 0
    /\ Driver_location = Column
    /\ Shipment_destination = Column
    /\ requests = [w \in Workers |-> IdleRequest]
    /\ response = NoResponse

\* the requests are served one at a time, by worker w1
AdminUpdate ==
    \E update_data \in UpdateBodies : UpdateShipmentSelect("w1", "s1", update_data, Admin)

DriverUpdate ==
    \E update_data \in DriverBodies :
        UpdateShipmentSelect("w1", "s1", update_data, DriverUser)

UnknownUpdate ==
    \E update_data \in DriverBodies :
        UpdateShipmentSelect("w1", UnknownShipment, update_data, Admin)

CancelAny ==
    \E current_user \in {Admin, Shipper} : CancelShipmentSelect("w1", "s1", current_user)

AssignOne ==
    \E d \in {"d1", "d3", UnknownDriver} : AssignDriverSelect("w1", "s1", d)

ServeOne ==
    \/ UpdateShipmentStatus("w1")
    \/ UpdateShipmentDriver("w1")
    \/ UpdateShipmentCommit("w1")
    \/ UpdateShipmentRefresh("w1")
    \/ CancelShipmentCommit("w1")
    \/ AssignDriverStamp("w1")
    \/ AssignDriverCommit("w1")
    \/ AssignDriverRefresh("w1")

NextShipments ==
    \/ AdminUpdate
    \/ DriverUpdate
    \/ UnknownUpdate
    \/ CancelAny
    \/ AssignOne
    \/ ServeOne
    \/ Tick

SpecShipments == InitShipments /\ [][NextShipments]_vars

\* ------------------------------------------------- two requests for one
\* ------------------------------------------------- shipment at a time
\* what the admin sends: the pick-up, or the delivery with a cost and a driver
\* that has no row
RaceBodies ==
    {[NoBody EXCEPT !.status = "in_transit"],
     [status |-> "delivered", driver_id |-> UnknownDriver, actual_cost |-> Some(20)]}

RaceUpdate ==
    \/ UpdateShipmentSelect("w1", "s1", [NoBody EXCEPT !.status = "in_transit"], Admin)
    \/ \E update_data \in RaceBodies : UpdateShipmentSelect("w2", "s1", update_data, Admin)

RaceDriverUpdate ==
    UpdateShipmentSelect("w1", "s1",
                         [NoBody EXCEPT !.status = "delivered", !.driver_id = UnknownDriver],
                         DriverUser)

RaceAssign ==
    AssignDriverSelect("w1", "s1", "d1")

NextRace ==
    \/ RaceUpdate
    \/ RaceDriverUpdate
    \/ Cancel
    \/ RaceAssign
    \/ Serve
    \/ Tick

SpecRace == InitShipments /\ [][NextRace]_vars

\* ------------------------------------------------------------------ claims
\* shipments_service.py:140-161
validate_coordinates(latitude, longitude) ==
    -90 <= latitude /\ latitude <= 90 /\ -180 <= longitude /\ longitude <= 180

LocationsOf(drv) == [d \in DOMAIN drv |-> drv[d].location]

\* the coordinates of the point a location element encodes
Longitude(element) == element.data[1]
Latitude(element) == element.data[2]

\* C1: a ping that names a driver or a shipment with no row fails and leaves
\* the tracking log and every driver's location as they were before the call.
C1_NotFoundLeavesNoTrace ==
    [][\A d \in PingDrivers, s \in PingShipments, c \in PingCoords, v \in PingSpeeds :
         (/\ d \notin DOMAIN drivers \/ s \notin DOMAIN shipments
          /\ TrackingUpdate(d, s, c[1], c[2], v))
         => /\ response'.result # Ok
            /\ tracking_points' = tracking_points
            /\ LocationsOf(drivers') = LocationsOf(drivers)]_vars

\* a ping for the shipment s1 that names a driver with no row has failed, and
\* the log is empty and d2 where it was
C1_Witness ==
    /\ response.op = "track_driver"
    /\ response.driver_id = UnknownDriver
    /\ response.shipment_id = "s1"
    /\ response.result = ErrSaving
    /\ tracking_points = <<>>
    /\ drivers["d2"].location = from_shape(8, 9)

\* C2: a ping whose latitude or longitude is out of range fails with
\* InvalidCoordinate before anything is written: the tracking log and every
\* driver's location stay as they were.
C2_InvalidCoordinateRejected ==
    [][\A d \in PingDrivers, s \in PingShipments, c \in PingCoords, v \in PingSpeeds :
         (/\ ~validate_coordinates(c[1], c[2])
          /\ TrackingUpdate(d, s, c[1], c[2], v))
         => /\ response'.result = "InvalidCoordinate"
            /\ tracking_points' = tracking_points
            /\ LocationsOf(drivers') = LocationsOf(drivers)]_vars

\* C3: once the pings of a driver have completed, the driver's current
\* location is the location of the tracking point with the greatest
\* recorded_at that these pings have stored.
C3_GreatestRecordedAtWins ==
    (/\ response.op = "track_driver"
     /\ response.driver_id \in DOMAIN drivers
     /\ response.shipment_id \in DOMAIN shipments)
    => \E i \in 1..Len(tracking_points) :
          /\ \A j \in 1..Len(tracking_points) :
                tracking_points[j].recorded_at <= tracking_points[i].recorded_at
          /\ drivers[response.driver_id].location = tracking_points[i].location

\* C4: only a ping changes the tracking log, and a read-side request (here the
\* delivery-time estimate) changes nothing: not the tables, and not the
\* process-wide state the handlers share.
C4_ReadSideChangesNothing ==
    [][/\ tracking_points' # tracking_points => Ping
       /\ Estimate => UNCHANGED <<tracking_points, drivers, shipments,
                                  Driver_location, Shipment_destination>>]_vars

\* the rows of one shipment, in stored order
LogOf(tp, shipment_id) == SelectSeq(tp, LAMBDA row : row.shipment_id = shipment_id)

\* C5: after any sequence of assignment and shipment-update requests no driver
\* holds more than 5 shipments in status assigned or in_transit.
C5_WorkloadCapKept ==
    \A d \in DOMAIN drivers :
        Cardinality({s \in DOMAIN shipments :
                        shipments[s].driver_id = d /\ shipments[s].status \in Active})
            <= MaxActiveShipments

\* C7: the tracking log is append-only. Every step keeps every stored row in
\* place and unchanged (id, shipment, location, speed, recorded_at), whichever
\* handler takes it: ping, shipment update, cancel or assign.
C7_TrackingLogAppendOnly ==
    [][\A i \in 1..Len(tracking_points) :
          /\ i <= Len(tracking_points')
          /\ tracking_points'[i] = tracking_points[i]]_vars

\* the table held two rows from the start; s1 was assigned to d2, cancelled by
\* its shipper, and pinged after that
C7_Witness ==
    /\ tracking_points = StoredLog(2)
    /\ shipments["s1"].status = "cancelled"
    /\ shipments["s1"].driver_id = "d2"
    /\ shipments["s1"].assigned_at # None
    /\ response.op = "track_driver"
    /\ response.shipment_id = "s1"

\* the active shipments of a driver in the tables as they are
ActiveCount(d) ==
    Cardinality({s \in DOMAIN shipments :
                    shipments[s].driver_id = d /\ shipments[s].status \in Active})

\* C9: findNearest returns the eligible driver at the least distance among those
\* within max_distance_km, the first in enumeration order on a tie, and none
\* exactly when no eligible driver is within range.
C9_NearestIsMinimumInRange ==
    response.op = "find_nearest_available_driver" =>
        LET r == response
            dist(d) == calculate_distance_km(<<"db", Latitude(drivers[d].location),
                                              Longitude(drivers[d].location),
                                              r.origin_lat, r.origin_lng>>).km100
            eligible == {d \in DOMAIN drivers :
                            /\ drivers[d].is_active
                            /\ drivers[d].status \in {"available", "on_duty"}
                            /\ drivers[d].location # None
                            /\ ActiveCount(d) < MaxActiveShipments
                            /\ drivers[d].vehicle_id \in DOMAIN vehicles
                            /\ vehicles[drivers[d].vehicle_id].capacity_kg
                                   >= r.shipment_weight_kg}
            inrange == {d \in eligible : dist(d) <= r.max_distance_km * 100}
            pos(d) == CHOOSE i \in DOMAIN r.order : r.order[i] = d
        IN  /\ r.result.raised = Null
            /\ IF inrange = {}
               THEN r.result.driver = Null
               ELSE /\ r.result.driver \in inrange
                    /\ r.result.distance = Some(dist(r.result.driver))
                    /\ \A e \in inrange :
                          \/ dist(r.result.driver) < dist(e)
                          \/ /\ dist(r.result.driver) = dist(e)
                             /\ pos(r.result.driver) <= pos(e)

\* C11: checkAvailability reports available only for a driver that exists, is
\* active, is not off duty, has fewer than 5 active shipments and has a vehicle
\* whose row exists and whose capacity_kg is at least the shipment weight.
C11_AvailableOnlyIfEligible ==
    (response.op = "check_driver_availability_for_shipment" /\ response.result.available) =>
        LET d == response.driver_id
        IN  /\ d \in DOMAIN drivers
            /\ drivers[d].is_active
            /\ drivers[d].status # "off_duty"
            /\ ActiveCount(d) < 5
            /\ drivers[d].vehicle_id # Null
            /\ drivers[d].vehicle_id \in DOMAIN vehicles
            /\ vehicles[drivers[d].vehicle_id].capacity_kg >= response.shipment_weight_kg

\* C12: the workload counts exactly the driver's assigned and in_transit
\* shipments, can_accept_more holds iff that count is below 5, and a driver who
\* exists, is active and is not off duty is refused for workload exactly when
\* the count is 5 or more.
C12_WorkloadCountAndLimit ==
    /\ response.op = "get_driver_active_workload" =>
          /\ response.result.total_active = ActiveCount(response.driver_id)
          /\ response.result.can_accept_more <=> (ActiveCount(response.driver_id) < 5)
    /\ (/\ response.op = "check_driver_availability_for_shipment"
        /\ response.driver_id \in DOMAIN drivers
        /\ drivers[response.driver_id].is_active
        /\ drivers[response.driver_id].status # "off_duty")
       => /\ (response.result.reason = "Driver has maximum workload")
               <=> (ActiveCount(response.driver_id) >= 5)
          /\ ActiveCount(response.driver_id) >= 5 => ~response.result.available

\* the distance the spec means between two log rows, in hundredths of a km
DistanceKm100(p, q) ==
    calculate_distance_km(<<"db", Latitude(p.location), Longitude(p.location),
                            Latitude(q.location), Longitude(q.location)>>).km100

\* C13: when the stored log of a shipment holds a point whose recorded_at is
\* earlier than that of the point stored before it, validateSequence returns
\* valid = false with a time_sequence anomaly.
C13_OutOfOrderPointReported ==
    LET rows == rows_of_shipment(tracking_points, "s1")
    IN  (/\ response.op = "validate"
         /\ \E i \in 2..Len(rows) : rows[i].recorded_at < rows[i - 1].recorded_at)
        => /\ response.result.raised = Null
           /\ ~response.result.valid
           /\ \E k \in DOMAIN response.result.anomalies :
                 response.result.anomalies[k].type = "time_sequence"

\* C14: validateSequence reports an impossible_speed anomaly for a consecutive
\* pair, in recorded_at order, exactly when distance / elapsed time exceeds
\* 150 km/h.
C14_ImpossibleSpeedExactlyAbove150 ==
    response.op = "validate" =>
        LET points == query_tracking_points(tracking_points, "s1")
        IN  \A i \in 2..Len(points) :
                LET seconds == points[i].recorded_at - points[i - 1].recorded_at
                    flagged == \E k \in DOMAIN response.result.anomalies :
                                  /\ response.result.anomalies[k].type = "impossible_speed"
                                  /\ response.result.anomalies[k].point_id = points[i].id
                IN  flagged <=> (/\ seconds > 0
                                 /\ DistanceKm100(points[i - 1], points[i]) * 36 > 150 * seconds)

\* C15: validateSequence never fails, whatever the log, and valid is true
\* exactly when the list of anomalies is empty.
C15_ValidateNeverFails ==
    response.op = "validate" =>
        /\ response.result.raised = Null
        /\ response.result.valid <=> (response.result.anomalies = <<>>)

\* C16: detectStops returns exactly one stop for each consecutive pair, in
\* recorded_at order, less than 0.1 km and at least min_stop_minutes apart, and
\* none for any other pair.
C16_OneStopPerQualifyingPair ==
    response.op = "stops" =>
        LET points == query_tracking_points(tracking_points, "s1")
            qualifying == {i \in 2..Len(points) :
                              /\ DistanceKm100(points[i - 1], points[i]) < 10
                              /\ points[i].recorded_at - points[i - 1].recorded_at
                                    >= 60 * response.min_stop_minutes}
        IN  /\ response.result.raised = Null
            /\ Len(response.result.stops) = Cardinality(qualifying)
            /\ \A i \in qualifying :
                  \E k \in DOMAIN response.result.stops :
                      /\ response.result.stops[k].start_time = points[i - 1].recorded_at
                      /\ response.result.stops[k].end_time = points[i].recorded_at

\* C17: totalDistanceTraveled is the length of the path through the shipment's
\* points taken in recorded_at ascending order, whatever order they were
\* stored in, and 0 for fewer than two points.
C17_TotalDistanceInRecordedOrder ==
    response.op = "total_distance" =>
        LET rows == rows_of_shipment(tracking_points, "s1")
            n == Len(rows)
        IN  /\ n < 2 => response.result = 0
            /\ \E o \in Scans(n) :
                  /\ \A i \in 2..n : rows[o[i - 1]].recorded_at <= rows[o[i]].recorded_at
                  /\ response.result = ST_Length([i \in 1..n |-> rows[o[i]].location])

\* C19: for an existing shipment with at least one point the summary does not
\* fail, counts the points of the log, gives the point with the greatest
\* recorded_at as current location, and holds an ETA exactly when the shipment
\* is in_transit or assigned.
C19_SummaryIsComposite ==
    LET rows == rows_of_shipment(tracking_points, response.shipment_id)
    IN  (/\ response.op = "summary"
         /\ response.shipment_id \in DOMAIN shipments
         /\ Len(rows) >= 1)
        => /\ response.result.raised = Null
           /\ response.result.tracking_points_count = Len(rows)
           /\ \E i \in 1..Len(rows) :
                 /\ \A j \in 1..Len(rows) : rows[j].recorded_at <= rows[i].recorded_at
                 /\ response.result.current_location = rows[i].location
           /\ response.result.has_eta
                 <=> (shipments[response.shipment_id].status \in {"in_transit", "assigned"})

C20_EstimateUsesSpeedOrFallback ==
    (/\ response.op = "estimate_delivery_time"
     /\ response.speed_kmh = None \/ response.speed_kmh[1] >= 0)
    => LET remaining == calculate_distance_km(<<"db", response.current_lat,
                                                response.current_lng,
                                                response.destination_lat,
                                                response.destination_lng>>).km100
           used == IF response.speed_kmh # None /\ response.speed_kmh[1] > 0
                   THEN response.speed_kmh[1] ELSE 40
       IN  /\ response.result.result = Ok
           /\ response.result.current_speed_kmh = used
           /\ response.result.remaining_distance_km100 = remaining
           /\ response.result.estimated_time_minutes10 = (remaining * 6) \div used
           /\ response.result.estimated_time_minutes10 >= 0

\* C21: estimateArrival with an explicitly provided negative speed fails with
\* InvalidSpeed instead of returning an ETA, while a zero or absent speed
\* succeeds using the 40 km/h fallback.
C21_NegativeSpeedIsInvalidSpeed ==
    response.op = "estimate_delivery_time"
    => IF response.speed_kmh # None /\ response.speed_kmh[1] < 0
       THEN response.result.result = "InvalidSpeed"
       ELSE (response.speed_kmh = None \/ response.speed_kmh[1] = 0)
            => /\ response.result.result = Ok
               /\ response.result.current_speed_kmh = 40

\* C22: a ping for an existing driver and an existing shipment (no shipment
\* has a planned route) succeeds and records the point, and a ping fails with
\* route-not-found only when the shipment itself does not exist.
C22_NoRouteStillSucceeds ==
    [][\A d \in PingDrivers, s \in PingShipments, c \in PingCoords, v \in PingSpeeds :
         TrackingUpdate(d, s, c[1], c[2], v)
         => /\ (/\ d \in DOMAIN drivers
                /\ s \in DOMAIN shipments
                /\ validate_coordinates(c[1], c[2]))
               => /\ response'.result = Ok
                  /\ Len(LogOf(tracking_points', s)) = Len(LogOf(tracking_points, s)) + 1
            /\ response'.result = ErrRouteNotFound => s \notin DOMAIN shipments]_vars

\* C23: selectOptimal returns none exactly when no vehicle is active, available
\* and of capacity_kg >= weightKg; otherwise it returns a vehicle of that
\* suitable set: one of the preferred class (motorcycle if distance < 5 and
\* weight < 10; else van or pickup if distance < 20 and weight < 500; else
\* truck) whenever the suitable set holds one, and the first suitable vehicle
\* of the enumeration otherwise.
C23_OptimalVehicleTiering ==
    response.op = "recommend_vehicle"
    => LET w == response.weight_kg
           dist == response.distance_km
           r == response.result
           o == response.order
           suit == {v \in FleetIds : /\ vehicles[v].is_active
                                     /\ vehicles[v].status = "available"
                                     /\ vehicles[v].capacity_kg >= w}
           pref == IF dist < 5 /\ w < 10 THEN {"motorcycle"}
                   ELSE IF dist < 20 /\ w < 500 THEN {"van", "pickup"}
                   ELSE {"truck"}
           pos(v) == CHOOSE i \in DOMAIN o : o[i] = v
       IN  /\ r = Null <=> suit = {}
           /\ r # Null
              => /\ r \in suit
                 /\ IF \E v \in suit : vehicles[v].vehicle_type \in pref
                    THEN vehicles[r].vehicle_type \in pref
                    ELSE \A v \in suit : pos(r) <= pos(v)

\* 8 kg over 3 km: a suitable van stands before a suitable motorcycle in the
\* enumeration and the motorcycle is chosen
C23_Witness ==
    /\ response.op = "recommend_vehicle"
    /\ response.weight_kg = 8
    /\ response.distance_km = 3
    /\ response.result # Null
    /\ vehicles[response.result].vehicle_type = "motorcycle"
    /\ vehicles[response.order[1]].vehicle_type = "van"
    /\ vehicles[response.order[1]].is_active
    /\ vehicles[response.order[1]].status = "available"

\* C24: checkAvailability evaluates its checks in the order not-found,
\* inactive, off-duty, workload-full, vehicle (no vehicle, vehicle too small)
\* and returns the reason of the first failing check only: an inactive driver
\* gets the inactive reason whatever else fails, an active off-duty driver the
\* off-duty reason even at full workload, and so on down the list.
C24_FirstFailingCheckWins ==
    response.op = "check_driver_availability_for_shipment"
    => LET d == response.driver_id
           r == response.result
           refused(reason) == ~r.available /\ r.reason = reason
       IN  IF d \notin DOMAIN drivers THEN refused("Driver not found")
           ELSE IF ~drivers[d].is_active THEN refused("Driver is not active")
           ELSE IF drivers[d].status = "off_duty" THEN refused("Driver is off duty")
           ELSE IF ActiveCount(d) >= 5 THEN refused("Driver has maximum workload")
           ELSE IF drivers[d].vehicle_id = Null THEN refused("Driver has no vehicle assigned")
           ELSE (/\ drivers[d].vehicle_id \in DOMAIN vehicles
                 /\ vehicles[drivers[d].vehicle_id].capacity_kg < response.shipment_weight_kg)
                => refused("Vehicle capacity insufficient for shipment")

\* C25: averageSpeed never fails on a zero elapsed time: a log with fewer than
\* 2 points, or whose consecutive pairs all have zero elapsed time, yields
\* average and max speed 0 with a message, and otherwise the result satisfies
\* 0 <= min <= average <= max over the pairs with positive elapsed time.
C25_AverageSpeedGuarded ==
    response.op = "average_speed"
    => LET log == LogOf(tracking_points, response.shipment_id)
           r == response.result
           no_pair == \A i, j \in 1..Len(log) : log[i].recorded_at = log[j].recorded_at
       IN  /\ r.raised = Null
           /\ IF no_pair
              THEN r.average_speed_kmh = 0 /\ r.max_speed_kmh = 0 /\ r.message # Null
              ELSE /\ 0 <= r.min_speed_kmh
                   /\ r.min_speed_kmh <= r.average_speed_kmh
                   /\ r.average_speed_kmh <= r.max_speed_kmh

\* C26: once a shipment's status is delivered or cancelled, no update, assign
\* or cancel request brings it back to created, assigned or in_transit.
C26_TerminalStatusStays ==
    [][\A s \in DOMAIN shipments :
          shipments[s].status \in {"delivered", "cancelled"}
          => shipments'[s].status \notin {"created", "assigned", "in_transit"}]_vars

\* C27: in every reachable state a shipment whose status is assigned or
\* in_transit has a driver.
C27_ActiveShipmentHasDriver ==
    \A s \in DOMAIN shipments :
        shipments[s].status \in {"assigned", "in_transit"} => shipments[s].driver_id # Null

\* C28: whenever a request gives a shipment a driver, through the assign
\* endpoint or through update_shipment, that driver exists and is active at
\* that moment; a request naming an inactive driver leaves the shipment's
\* driver_id and status unchanged.
C28_OnlyActiveDriversAssigned ==
    [][/\ \A s \in DOMAIN shipments :
            (/\ shipments'[s].driver_id # shipments[s].driver_id
             /\ shipments'[s].driver_id # Null)
            => /\ shipments'[s].driver_id \in DOMAIN drivers
               /\ drivers[shipments'[s].driver_id].is_active
       /\ \A w \in Workers, d \in DOMAIN drivers :
            (/\ ~drivers[d].is_active
             /\ \/ /\ AssignDriverStamp(w) \/ AssignDriverCommit(w)
                   /\ requests[w].driver_id = d
                \/ /\ UpdateShipmentDriver(w) \/ UpdateShipmentCommit(w)
                   /\ requests[w].update_data.driver_id = d
                   /\ requests[w].current_user.role = "admin")
            => /\ shipments'["s1"].driver_id = shipments["s1"].driver_id
               /\ shipments'["s1"].status = shipments["s1"].status]_vars

\* C29: a shipment's picked_up_at and delivered_at are each written at most
\* once: once set, no later request changes the value, a repeated transition
\* to in_transit or delivered included.
C29_TimestampsWrittenOnce ==
    [][\A s \in DOMAIN shipments :
          /\ shipments[s].picked_up_at # None
             => shipments'[s].picked_up_at = shipments[s].picked_up_at
          /\ shipments[s].delivered_at # None
             => shipments'[s].delivered_at = shipments[s].delivered_at]_vars

\* a step worker w takes in a PUT /shipments/s1 request that names a
\* driver_id with no drivers row
ServesUnknownDriverUpdate(w) ==
    /\ \/ UpdateShipmentStatus(w)
       \/ UpdateShipmentDriver(w)
       \/ UpdateShipmentCommit(w)
       \/ UpdateShipmentRefresh(w)
    /\ requests[w].shipment_id = "s1"
    /\ requests[w].update_data.driver_id # Null
    /\ requests[w].update_data.driver_id \notin DOMAIN drivers

\* C30 as stated: an update_shipment request that names a driver_id with no
\* drivers row, sent by a user allowed to update the shipment (an admin, or the
\* driver the shipment is assigned to), fails with not-found and persists
\* nothing: status, timestamps, driver_id and actual_cost stay as they were,
\* also when the request carried a new status.
C30_UnknownDriverPersistsNothing ==
    [][\A w \in Workers :
         (/\ ServesUnknownDriverUpdate(w)
          /\ \/ requests[w].current_user.role = "admin"
             \/ requests[w].loaded[1].driver_id = requests[w].current_user.driver_id)
         => /\ shipments' = shipments
            /\ requests'[w].pc = "idle" => response'.result = "404 Driver not found"]_vars

\* C30 as amended: the same for a request sent by an admin; the driver_id of a
\* driver's request is not looked at.
C30_AdminUnknownDriverPersistsNothing ==
    [][\A w \in Workers :
         (/\ ServesUnknownDriverUpdate(w)
          /\ requests[w].current_user.role = "admin")
         => /\ shipments' = shipments
            /\ requests'[w].pc = "idle" => response'.result = "404 Driver not found"]_vars

\* an admin asked for status delivered, an actual cost and a driver with no
\* row, on a shipment in transit: refused, and the shipment is still in transit
\* with no delivery time and no cost
C30_Witness ==
    /\ response.op = "update_shipment"
    /\ response.current_user = Admin
    /\ response.update_data.status = "delivered"
    /\ response.update_data.driver_id = UnknownDriver
    /\ response.update_data.actual_cost # None
    /\ response.result = "404 Driver not found"
    /\ shipments["s1"].status = "in_transit"
    /\ shipments["s1"].delivered_at = None
    /\ shipments["s1"].actual_cost = None

====
